---- MODULE Spec2Model ----
(***************************************************************************)
(* Resume tailoring backend: the document renderer (line classification,   *)
(* file naming, retention) and the resume parser (section segmentation).   *)
(* Texts are sequences of lines, a line is a sequence of one-character     *)
(* strings; "U+2022" stands for the bullet character.                      *)
(***************************************************************************)
EXTENDS Naturals, Integers, Sequences, FiniteSets, TLC

VARIABLES
    content,   \* the tailored text handed to the renderers, content.split('\n')
    pdfOut,    \* what _generate_pdf emitted for content
    docxOut,   \* what _generate_docx emitted for content
    text,      \* the cleaned resume text handed to _extract_sections, text.split("\n")
    parsed,    \* the result of _extract_sections on text
    now,       \* the clock, in ticks
    dir,       \* the output directory: file name -> [mtime, writer, size]
    gen,       \* the calls of DocumentGenerator.generate
    cln,       \* the calls of DocumentGenerator.cleanup_old_files
    nameIn,    \* the arguments of one call of _generate_filename, and its clock
    nameOut,   \* the file name _generate_filename returned
    response,  \* the response text handed to _parse_tailor_response
    tailored,  \* the TailoredResume _parse_tailor_response returned
    rawText,   \* the raw extracted text handed to _clean_text
    cleaned,   \* the string _clean_text returned
    skillsIn,  \* the arguments of one call of _extract_skills
    skills,    \* the lists _extract_skills returned
    req        \* one request to the service: the tailor workflow or extract_job_details

fileVars == <<now, dir, gen, cln>>
serviceVars == <<nameIn, nameOut, response, tailored, rawText, cleaned, skillsIn, skills, req>>
vars == <<content, pdfOut, docxOut, text, parsed, now, dir, gen, cln, serviceVars>>

\* a result variable before its function has run, a request slot not in use
NotRun == [done |-> FALSE]
ServiceUnused ==
    /\ nameIn = <<>>
    /\ nameOut = NotRun
    /\ response = <<>>
    /\ tailored = NotRun
    /\ rawText = <<>>
    /\ cleaned = NotRun
    /\ skillsIn = <<>>
    /\ skills = NotRun
    /\ req = [pc |-> "off"]

\* ---------------------------------------------------------------- bounds
MaxLines == 3
MaxResumeLines == 4
MaxTime == 3
MaxKeep == 2
TicksPerSecond == 2
MaxRaw == 6

\* ---------------------------------------------------------------- strings
UpperChars == <<"A","B","C","D","E","F","G","H","I","J","K","L","M","N","O","P","Q","R","S","T","U","V","W","X","Y","Z">>
LowerChars == <<"a","b","c","d","e","f","g","h","i","j","k","l","m","n","o","p","q","r","s","t","u","v","w","x","y","z">>
Whitespace == {" ", "\t", "\n"}

IsUpperChar(c) == \E i \in DOMAIN UpperChars : UpperChars[i] = c
IsLowerChar(c) == \E i \in DOMAIN LowerChars : LowerChars[i] = c
ToLowerChar(c) ==
    IF IsUpperChar(c)
    THEN LowerChars[CHOOSE i \in DOMAIN UpperChars : UpperChars[i] = c]
    ELSE c

\* str.lower()
lower(s) == [i \in 1..Len(s) |-> ToLowerChar(s[i])]

\* str.isalnum() of one character
IsAlnum(c) ==
    IsUpperChar(c) \/ IsLowerChar(c) \/ c \in {"0","1","2","3","4","5","6","7","8","9"}

\* str.isupper(): at least one cased character and no lower-case one
isupper(s) ==
    /\ \E i \in 1..Len(s) : IsUpperChar(s[i])
    /\ \A i \in 1..Len(s) : ~IsLowerChar(s[i])

\* str.lstrip(chars) / str.rstrip(chars)
RECURSIVE lstrip(_, _)
lstrip(s, chars) ==
    IF s # <<>> /\ Head(s) \in chars THEN lstrip(Tail(s), chars) ELSE s

RECURSIVE rstrip(_, _)
rstrip(s, chars) ==
    IF s # <<>> /\ s[Len(s)] \in chars THEN rstrip(SubSeq(s, 1, Len(s) - 1), chars) ELSE s

\* str.strip()
strip(s) == rstrip(lstrip(s, Whitespace), Whitespace)

\* len(s.split()): the number of whitespace-separated words
WordCount(s) ==
    Cardinality({i \in 1..Len(s) :
        s[i] \notin Whitespace /\ (i = 1 \/ s[i - 1] \in Whitespace)})

\* s.startswith(p)
startswith(s, p) == Len(s) >= Len(p) /\ SubSeq(s, 1, Len(p)) = p

\* c in s
Contains(s, c) == \E i \in 1..Len(s) : s[i] = c

\* len(s.split(c))
SplitCount(s, c) == Cardinality({i \in 1..Len(s) : s[i] = c}) + 1

\* "\n".join(lines)
RECURSIVE join(_)
join(lines) ==
    IF lines = <<>> THEN <<>>
    ELSE IF Len(lines) = 1 THEN lines[1]
    ELSE lines[1] \o <<"\n">> \o join(Tail(lines))

\* s.split("\n")
RECURSIVE split(_)
split(s) ==
    IF ~Contains(s, "\n") THEN <<s>>
    ELSE LET k == CHOOSE i \in 1..Len(s) :
                      s[i] = "\n" /\ \A j \in 1..(i - 1) : s[j] # "\n"
         IN <<SubSeq(s, 1, k - 1)>> \o split(SubSeq(s, k + 1, Len(s)))

\* ---------------------------------------------------------------- regular expressions
\* The patterns of SECTION_PATTERNS are built from literals, \s+ and optional
\* groups; re.match anchors at the start and accepts any continuation.
Lit(s) == [k |-> "lit", s |-> s]
WS == [k |-> "ws", s |-> <<>>]
Req(parts) == [opt |-> FALSE, parts |-> parts]
Opt(parts) == [opt |-> TRUE, parts |-> parts]

\* the positions at which a match of parts, started at pos, can end
RECURSIVE MatchParts(_, _, _)
MatchParts(parts, s, pos) ==
    IF parts = <<>> THEN {pos}
    ELSE LET p == Head(parts) IN
         IF p.k = "lit"
         THEN IF /\ pos + Len(p.s) - 1 <= Len(s)
                 /\ \A i \in 1..Len(p.s) :
                        ToLowerChar(s[pos + i - 1]) = ToLowerChar(p.s[i])
              THEN MatchParts(Tail(parts), s, pos + Len(p.s))
              ELSE {}
         ELSE UNION {MatchParts(Tail(parts), s, e) :
                        e \in {e \in (pos + 1)..(Len(s) + 1) :
                                  \A i \in pos..(e - 1) : s[i] \in Whitespace}}

RECURSIVE MatchGroups(_, _, _)
MatchGroups(groups, s, pos) ==
    IF groups = <<>> THEN {pos}
    ELSE LET g == Head(groups) IN
         UNION {MatchGroups(Tail(groups), s, e) : e \in MatchParts(g.parts, s, pos)}
         \cup (IF g.opt THEN MatchGroups(Tail(groups), s, pos) ELSE {})

\* re.match(pattern, s) is not None
re_match(pattern, s) == MatchGroups(pattern, s, 1) # {}

\* ResumeParser.SECTION_PATTERNS, each (?i)^...
SECTION_PATTERNS ==
    << <<Opt(<<Lit(<<"p","r","o","f","e","s","s","i","o","n","a","l">>), WS>>), Req(<<Lit(<<"s","u","m","m","a","r","y">>)>>)>>,
       <<Opt(<<Lit(<<"c","a","r","e","e","r">>), WS>>), Req(<<Lit(<<"o","b","j","e","c","t","i","v","e">>)>>)>>,
       <<Req(<<Lit(<<"p","r","o","f","i","l","e">>)>>)>>,
       <<Req(<<Lit(<<"a","b","o","u","t">>)>>), Opt(<<WS, Lit(<<"m","e">>)>>)>>,
       <<Opt(<<Lit(<<"p","r","o","f","e","s","s","i","o","n","a","l">>), WS>>), Req(<<Lit(<<"e","x","p","e","r","i","e","n","c","e">>)>>)>>,
       <<Opt(<<Lit(<<"w","o","r","k">>), WS>>), Req(<<Lit(<<"h","i","s","t","o","r","y">>)>>)>>,
       <<Req(<<Lit(<<"e","m","p","l","o","y","m","e","n","t">>)>>)>>,
       <<Req(<<Lit(<<"e","d","u","c","a","t","i","o","n">>)>>)>>,
       <<Opt(<<Lit(<<"t","e","c","h","n","i","c","a","l">>), WS>>), Req(<<Lit(<<"s","k","i","l","l","s">>)>>)>>,
       <<Req(<<Lit(<<"c","o","r","e">>), WS, Lit(<<"c","o","m","p","e","t","e","n","c","i","e","s">>)>>)>>,
       <<Req(<<Lit(<<"c","o","m","p","e","t","e","n","c","i","e","s">>)>>)>>,
       <<Req(<<Lit(<<"c","e","r","t","i","f","i","c","a","t","i","o","n">>)>>), Opt(<<Lit(<<"s">>)>>)>>,
       <<Opt(<<Lit(<<"n","o","t","a","b","l","e">>), WS>>), Req(<<Lit(<<"p","r","o","j","e","c","t">>)>>), Opt(<<Lit(<<"s">>)>>)>>,
       <<Req(<<Lit(<<"a","c","h","i","e","v","e","m","e","n","t">>)>>), Opt(<<Lit(<<"s">>)>>)>>,
       <<Req(<<Lit(<<"a","c","c","o","m","p","l","i","s","h","m","e","n","t">>)>>), Opt(<<Lit(<<"s">>)>>)>>,
       <<Req(<<Lit(<<"a","w","a","r","d">>)>>), Opt(<<Lit(<<"s">>)>>)>>,
       <<Req(<<Lit(<<"p","u","b","l","i","c","a","t","i","o","n">>)>>), Opt(<<Lit(<<"s">>)>>)>>,
       <<Req(<<Lit(<<"l","a","n","g","u","a","g","e">>)>>), Opt(<<Lit(<<"s">>)>>)>>,
       <<Req(<<Lit(<<"i","n","t","e","r","e","s","t">>)>>), Opt(<<Lit(<<"s">>)>>)>>,
       <<Req(<<Lit(<<"h","o","b","b","i","e","s">>)>>)>>,
       <<Req(<<Lit(<<"r","e","f","e","r","e","n","c","e">>)>>), Opt(<<Lit(<<"s">>)>>)>>,
       <<Req(<<Lit(<<"v","o","l","u","n","t","e","e","r">>)>>), Opt(<<Lit(<<"i","n","g">>)>>)>>,
       <<Req(<<Lit(<<"l","e","a","d","e","r","s","h","i","p">>)>>)>>,
       <<Req(<<Lit(<<"t","r","a","i","n","i","n","g">>)>>)>>,
       <<Req(<<Lit(<<"c","o","u","r","s","e">>)>>), Opt(<<Lit(<<"s">>)>>)>> >>

\* the catalogue of DocumentGenerator._is_section_header
headers ==
    << <<"s","u","m","m","a","r","y">>,
       <<"o","b","j","e","c","t","i","v","e">>,
       <<"p","r","o","f","i","l","e">>,
       <<"e","x","p","e","r","i","e","n","c","e">>,
       <<"w","o","r","k"," ","h","i","s","t","o","r","y">>,
       <<"e","m","p","l","o","y","m","e","n","t">>,
       <<"e","d","u","c","a","t","i","o","n">>,
       <<"s","k","i","l","l","s">>,
       <<"t","e","c","h","n","i","c","a","l"," ","s","k","i","l","l","s">>,
       <<"c","o","m","p","e","t","e","n","c","i","e","s">>,
       <<"c","e","r","t","i","f","i","c","a","t","i","o","n","s">>,
       <<"p","r","o","j","e","c","t","s">>,
       <<"a","c","h","i","e","v","e","m","e","n","t","s">>,
       <<"a","c","c","o","m","p","l","i","s","h","m","e","n","t","s">>,
       <<"a","w","a","r","d","s">>,
       <<"p","u","b","l","i","c","a","t","i","o","n","s">>,
       <<"l","a","n","g","u","a","g","e","s">>,
       <<"i","n","t","e","r","e","s","t","s">>,
       <<"h","o","b","b","i","e","s">>,
       <<"r","e","f","e","r","e","n","c","e","s">>,
       <<"v","o","l","u","n","t","e","e","r">>,
       <<"l","e","a","d","e","r","s","h","i","p">>,
       <<"p","r","o","f","e","s","s","i","o","n","a","l"," ","e","x","p","e","r","i","e","n","c","e">>,
       <<"p","r","o","f","e","s","s","i","o","n","a","l"," ","s","u","m","m","a","r","y">>,
       <<"c","o","r","e"," ","c","o","m","p","e","t","e","n","c","i","e","s">>,
       <<"c","a","r","e","e","r"," ","o","b","j","e","c","t","i","v","e">>,
       <<"a","b","o","u","t"," ","m","e">>,
       <<"c","o","n","t","a","c","t">>,
       <<"c","o","n","t","a","c","t"," ","i","n","f","o","r","m","a","t","i","o","n">> >>

\* the lines a tailored text is made of
RenderLines ==
    { <<>>,
       <<"J","a","n","e"," ","D","o","e">>,
       <<"E","X","P","E","R","I","E","N","C","E">>,
       <<"U+2022"," ","B","u","i","l","t">>,
       <<"a","@","x"," ","|"," ","5","5","5">>,
       <<"-","-","-">>,
       <<"-"," ","-","x">>,
       <<"S","k","i","l","l","s",":">>,
       <<" ","*"," ","i","t"," ">>,
       <<"-","-">>,
       <<"G","o"," ","d","e","v">> }

\* the lines a cleaned resume text is made of
ResumeLines ==
    { <<>>,
      <<"S","k","i","l","l","s">>,
      <<"S","K","I","L","L","S">>,
      <<"G","o">>,
      <<"S","k","i","l","l","s"," ","i","n"," ","G","o">>,
      <<"M","Y"," ","W","O","R","K">>,
      <<"C","O","N","T","A","C","T">>,
      <<"S","k","i","l","l","s",":">> }

\* ---------------------------------------------------------------- document renderer
BulletMarkers == {"U+2022", "-", "*"}
SeparatorChars == {"-", "=", "_", "*"}
NonLatin1 == {"U+2022", "U+2013", "U+2014", "U+2026"}

\* DocumentGenerator._is_section_header
is_section_header(line) ==
    LET line_stripped == strip(line)
        line_lower == lower(line_stripped)
    IN \/ \E h \in DOMAIN headers :
              \/ line_lower = headers[h]
              \/ startswith(line_lower, headers[h] \o <<":">>)
       \/ /\ isupper(line_stripped)
          /\ 1 <= WordCount(line_stripped)
          /\ WordCount(line_stripped) <= 5

\* DocumentGenerator._is_separator
is_separator(line) ==
    LET stripped == strip(line) IN
    IF stripped = <<>> THEN FALSE
    ELSE IF /\ Cardinality({stripped[i] : i \in DOMAIN stripped}) = 1
            /\ stripped[1] \in SeparatorChars
         THEN Len(stripped) >= 3
         ELSE FALSE

\* DocumentGenerator._clean_text_for_pdf: the replacement table, then
\* encode('latin-1', 'replace')
RECURSIVE clean_text_for_pdf(_)
clean_text_for_pdf(s) ==
    IF s = <<>> THEN <<>>
    ELSE LET c == Head(s)
             r == IF c \in {"U+2013", "U+2014"} THEN <<"-">>
                  ELSE IF c = "U+2026" THEN <<".", ".", ".">>
                  ELSE IF c = "U+2022" THEN <<"*">>
                  ELSE IF c \in NonLatin1 THEN <<"?">>
                  ELSE <<c>>
         IN r \o clean_text_for_pdf(Tail(s))

\* line.startswith('U+2022') or line.startswith('-') or line.startswith('*')
IsBulletLine(line) == \E m \in BulletMarkers : startswith(line, <<m>>)

\* '|' in line and len(line.split('|')) >= 2
IsPipeLine(line) == Contains(line, "|") /\ SplitCount(line, "|") >= 2

El(kind, s) == [kind |-> kind, text |-> s]

RenderStart == [doc |-> <<>>, cls |-> <<>>, is_first_content |-> TRUE]

\* one iteration of the loop of _generate_pdf: doc is the sequence of elements
\* drawn on the page, cls the branch taken for each line
PdfLine(st, raw) ==
    LET line == strip(raw)
        is_header == is_section_header(line)
    IN IF line = <<>>
       THEN [st EXCEPT !.doc = Append(@, El("space", <<>>)),
                       !.cls = Append(@, "blank")]
       ELSE IF is_separator(line)
       THEN [st EXCEPT !.doc = Append(@, El("rule", <<>>)),
                       !.cls = Append(@, "separator")]
       ELSE IF st.is_first_content /\ ~is_header
       THEN [doc |-> Append(st.doc, El("name", clean_text_for_pdf(line))),
             cls |-> Append(st.cls, "name"),
             is_first_content |-> FALSE]
       ELSE IF is_header
       THEN [st EXCEPT !.doc = @ \o <<El("header", clean_text_for_pdf(line)),
                                      El("underline", <<>>)>>,
                       !.cls = Append(@, "header")]
       ELSE IF IsBulletLine(line)
       THEN [st EXCEPT !.doc = Append(@, El("bullet",
                                 <<"U+2022", " ">> \o
                                 clean_text_for_pdf(lstrip(line, BulletMarkers \cup {" "})))),
                       !.cls = Append(@, "bullet")]
       ELSE IF IsPipeLine(line)
       THEN [st EXCEPT !.doc = Append(@, El("pipe", clean_text_for_pdf(line))),
                       !.cls = Append(@, "pipe")]
       ELSE [st EXCEPT !.doc = Append(@, El("body", clean_text_for_pdf(line))),
                       !.cls = Append(@, "body")]

\* one iteration of the loop of _generate_docx
DocxLine(st, raw) ==
    LET line == strip(raw)
        is_header == is_section_header(line)
    IN IF line = <<>>
       THEN [st EXCEPT !.doc = Append(@, El("space", <<>>)),
                       !.cls = Append(@, "blank")]
       ELSE IF is_separator(line)
       THEN [st EXCEPT !.cls = Append(@, "separator")]
       ELSE IF st.is_first_content /\ ~is_header
       THEN [doc |-> Append(st.doc, El("name", line)),
             cls |-> Append(st.cls, "name"),
             is_first_content |-> FALSE]
       ELSE IF is_header
       THEN [st EXCEPT !.doc = Append(@, El("header", line)),
                       !.cls = Append(@, "header")]
       ELSE IF IsBulletLine(line)
       THEN [st EXCEPT !.doc = Append(@, El("bullet",
                                 lstrip(line, BulletMarkers \cup {" "}))),
                       !.cls = Append(@, "bullet")]
       ELSE IF IsPipeLine(line)
       THEN [st EXCEPT !.doc = Append(@, El("pipe", line)),
                       !.cls = Append(@, "pipe")]
       ELSE [st EXCEPT !.doc = Append(@, El("body", line)),
                       !.cls = Append(@, "body")]

RECURSIVE PdfLoop(_, _)
PdfLoop(st, lines) ==
    IF lines = <<>> THEN st ELSE PdfLoop(PdfLine(st, Head(lines)), Tail(lines))

RECURSIVE DocxLoop(_, _)
DocxLoop(st, lines) ==
    IF lines = <<>> THEN st ELSE DocxLoop(DocxLine(st, Head(lines)), Tail(lines))

\* _generate_pdf with is_first_content starting False: no line becomes the name
generate_pdf_NoFirst(lines) ==
    PdfLoop([RenderStart EXCEPT !.is_first_content = FALSE], lines)

\* _generate_pdf / _generate_docx on content.split('\n')
generate_pdf(lines) == PdfLoop(RenderStart, lines)
generate_docx(lines) == DocxLoop(RenderStart, lines)

\* ---------------------------------------------------------------- section segmenter
HeaderKey == <<"h","e","a","d","e","r">>

\* the heading test of _extract_sections, on the stripped line
SegIsHeader(line_stripped) ==
    \/ \E p \in DOMAIN SECTION_PATTERNS : re_match(SECTION_PATTERNS[p], line_stripped)
    \/ /\ isupper(line_stripped)
       /\ 2 <= WordCount(line_stripped)
       /\ WordCount(line_stripped) <= 5

\* sections[key] = value on an insertion-ordered dict, kept as a sequence of
\* [key, value]: an existing key keeps its place and has its value replaced
DictSet(d, key, value) ==
    IF \E i \in DOMAIN d : d[i].key = key
    THEN [i \in DOMAIN d |-> IF d[i].key = key THEN [key |-> key, value |-> value] ELSE d[i]]
    ELSE Append(d, [key |-> key, value |-> value])

SegStart ==
    [sections |-> <<>>, current_section |-> HeaderKey, current_content |-> <<>>,
     heads |-> <<>>]

\* "Save previous section" / "Don't forget the last section"
SegFlush(st) ==
    IF st.current_content # <<>>
    THEN DictSet(st.sections, st.current_section, strip(join(st.current_content)))
    ELSE st.sections

\* one iteration of the loop of _extract_sections; heads records is_header
SegLine(st, line) ==
    LET line_stripped == strip(line)
        is_header == SegIsHeader(line_stripped)
        header_name == IF is_header THEN lower(line_stripped) ELSE <<>>
    IN IF is_header /\ header_name # <<>>
       THEN [sections |-> SegFlush(st),
             current_section |-> header_name,
             current_content |-> <<>>,
             heads |-> Append(st.heads, TRUE)]
       ELSE [st EXCEPT !.current_content = Append(@, line),
                       !.heads = Append(@, FALSE)]

RECURSIVE SegLoop(_, _)
SegLoop(st, lines) ==
    IF lines = <<>> THEN st ELSE SegLoop(SegLine(st, Head(lines)), Tail(lines))

\* _extract_sections without the flush after the loop
extract_sections_NoLastFlush(lines) ==
    LET st == SegLoop(SegStart, lines)
    IN [sections |-> st.sections, heads |-> st.heads]

\* ResumeParser._extract_sections on text.split("\n")
extract_sections(lines) ==
    LET st == SegLoop(SegStart, lines)
    IN [sections |-> SegFlush(st), heads |-> st.heads]

\* ---------------------------------------------------------------- inputs
SeqsUpTo(S, n) == UNION {[1..k -> S] : k \in 1..n}

\* tailored texts: what the generation service returned, any lines
Texts == SeqsUpTo(RenderLines, MaxLines)

\* cleaned resume texts: _clean_text ends with text.strip()
CleanTexts == {t \in SeqsUpTo(ResumeLines, MaxResumeLines) : strip(join(t)) = join(t)}

NotRendered == [done |-> FALSE, doc |-> <<>>, cls |-> <<>>]
NotParsed == [done |-> FALSE, sections |-> <<>>, heads |-> <<>>]

\* ---------------------------------------------------------------- file names
PDF == <<"p","d","f">>
DOCX == <<"d","o","c","x">>
TXT == <<"t","x","t">>
SUPPORTED_FORMATS == {PDF, DOCX}
ComponentMax == 30
DigitChars == <<"0","1","2","3","4","5","6","7","8","9">>

\* re.sub(r'[<>:"/\\|?*]', '', text)
InvalidChars == {"<", ">", ":", "\"", "/", "\\", "|", "?", "*"}
RemoveInvalid(s) == SelectSeq(s, LAMBDA c : c \notin InvalidChars)

\* re.sub(r'\s+', '_', s) with chars the whitespace, re.sub(r'_+', '_', s) with
\* chars {"_"}: every run of chars becomes one underscore
RECURSIVE CollapseRuns(_, _)
CollapseRuns(s, chars) ==
    IF s = <<>> THEN <<>>
    ELSE IF Head(s) \in chars
    THEN <<"_">> \o CollapseRuns(lstrip(s, chars), chars)
    ELSE <<Head(s)>> \o CollapseRuns(Tail(s), chars)

\* DocumentGenerator._sanitize_for_filename
sanitize_for_filename(s) ==
    LET a == RemoveInvalid(s)
        b == CollapseRuns(a, Whitespace)
        c == CollapseRuns(b, {"_"})
    IN rstrip(lstrip(c, {"_"}), {"_"})

\* s[:n]
Take(s, n) == SubSeq(s, 1, IF Len(s) < n THEN Len(s) ELSE n)

\* datetime.now().strftime("%Y%m%d_%H%M%S") at tick t: the clock cut to whole
\* seconds, written as the seconds field (the date and hour fields are fixed)
strftime(t) ==
    LET s == t \div TicksPerSecond
    IN <<DigitChars[((s \div 10) % 10) + 1], DigitChars[(s % 10) + 1]>>

\* '_'.join(parts)
RECURSIVE join_(_)
join_(parts) ==
    IF parts = <<>> THEN <<>>
    ELSE IF Len(parts) = 1 THEN parts[1]
    ELSE parts[1] \o <<"_">> \o join_(Tail(parts))

\* the component appended whenever the input is given, even when nothing of
\* it is left after sanitizing
component_KeepsEmpty(s) ==
    IF s # <<>> THEN <<Take(sanitize_for_filename(s), ComponentMax)>> ELSE <<>>

\* what _generate_filename appends to parts for a company or a job title:
\* if company: safe = sanitize(company); if safe: parts.append(safe[:30])
component(s) ==
    IF s # <<>> /\ sanitize_for_filename(s) # <<>>
    THEN <<Take(sanitize_for_filename(s), ComponentMax)>>
    ELSE <<>>

\* DocumentGenerator._generate_filename, called at tick t; an absent (None)
\* job title or company is the empty string
generate_filename(format, job_title, company, t) ==
    LET timestamp == strftime(t)
        parts == <<<<"r","e","s","u","m","e">>, <<"t","a","i","l","o","r","e","d">>>>
                 \o component(company)
                 \o component(job_title)
                 \o <<timestamp>>
    IN join_(parts) \o <<".">> \o format

\* ---------------------------------------------------------------- the output directory
Gens == {"g1", "g2"}
Cleans == {"c1", "c2"}

\* the format lists, companies and job titles of the requests
FormatLists == {<<PDF>>, <<PDF, DOCX>>, <<PDF, TXT>>, <<TXT, DOCX>>}
Companies == {<<>>, <<"A","c","m","e">>}
JobTitles == {<<>>}

\* the content each call is given; the rendered file is as long as the content
ContentOf(p) == IF p = "g1" THEN <<"a">> ELSE <<"a", "b">>
KeepCounts == (0 - 1)..MaxKeep

GenIdle ==
    [pc |-> "idle", formats |-> <<>>, job_title |-> <<>>, company |-> <<>>,
     i |-> 0, filename |-> <<>>, generated |-> <<>>, result |-> <<>>,
     raised |-> "none", wrote |-> {}, failed |-> FALSE]

ClnIdle ==
    [pc |-> "idle", keep_count |-> 0, found |-> {}, seen |-> <<>>, files |-> <<>>,
     todo |-> <<>>, idx |-> 0, deleted |-> 0, result |-> 0, raised |-> "none",
     removed |-> {}, unlink_failed |-> FALSE]

\* seq[k:] of Python, k negative counting from the end
SliceFrom(seq, k) ==
    LET start == IF k >= 0 THEN k
                 ELSE IF Len(seq) + k > 0 THEN Len(seq) + k ELSE 0
    IN SubSeq(seq, start + 1, Len(seq))

\* the sort without reverse=True: oldest first
SortedByMtimeAsc(found, mtime) ==
    {s \in [1..Cardinality(found) -> found] :
        /\ \A a, b \in DOMAIN s : a # b => s[a] # s[b]
        /\ \A a, b \in DOMAIN s : a < b => mtime[s[a]] <= mtime[s[b]]}

\* the orders files.sort(key=st_mtime, reverse=True) can leave the globbed
\* files in: newest first, files of equal mtime in glob order, which is any
SortedByMtimeDesc(found, mtime) ==
    {s \in [1..Cardinality(found) -> found] :
        /\ \A a, b \in DOMAIN s : a # b => s[a] # s[b]
        /\ \A a, b \in DOMAIN s : a < b => mtime[s[a]] >= mtime[s[b]]}

\* no call of generate or cleanup_old_files is between its first and last step
NoCallRunning ==
    /\ \A p \in Gens : gen[p].pc \in {"idle", "done", "off"}
    /\ \A c \in Cleans : cln[c].pc \in {"idle", "done", "off"}

InitFiles ==
    /\ now = 0
    /\ dir = <<>>
    /\ gen = [p \in Gens |-> GenIdle]
    /\ cln = [c \in Cleans |-> IF c = "c1" THEN ClnIdle ELSE [ClnIdle EXCEPT !.pc = "off"]]
    /\ content = <<<<>>>>
    /\ pdfOut = NotRendered
    /\ docxOut = NotRendered
    /\ text = <<<<>>>>
    /\ parsed = NotParsed
    /\ ServiceUnused

Tick ==
    /\ now < MaxTime
    /\ now' = now + 1
    /\ UNCHANGED <<dir, gen, cln, content, pdfOut, docxOut, text, parsed, serviceVars>>

\* generate without the validation of lines 93-96
GenStart_NoValidation(p) ==
    /\ gen[p].pc = "idle"
    /\ \E formats \in FormatLists, job_title \in JobTitles, company \in Companies :
          gen' = [gen EXCEPT ![p].formats = formats, ![p].job_title = job_title,
                             ![p].company = company, ![p].pc = "render", ![p].i = 1]
    /\ UNCHANGED <<now, dir, cln, content, pdfOut, docxOut, text, parsed, serviceVars>>

\* generate, lines 88-98: the call and the validation of the formats
GenStart(p) ==
    /\ gen[p].pc = "idle"
    /\ \E formats \in FormatLists, job_title \in JobTitles, company \in Companies :
          LET invalid_formats == {formats[k] : k \in DOMAIN formats} \ SUPPORTED_FORMATS
              call == [gen[p] EXCEPT !.formats = formats, !.job_title = job_title,
                                     !.company = company]
          IN gen' = [gen EXCEPT ![p] =
                 IF invalid_formats # {}
                 THEN [call EXCEPT !.pc = "done", !.raised = "ValueError"]
                 ELSE IF formats = <<>>
                 THEN [call EXCEPT !.pc = "done"]
                 ELSE [call EXCEPT !.pc = "render", !.i = 1]]
    /\ UNCHANGED <<now, dir, cln, content, pdfOut, docxOut, text, parsed, serviceVars>>

\* generate with a failed format skipped instead of raised: the loop goes on
\* and the documents of the other formats are returned
GenRender_SkipsFailed(p) ==
    /\ gen[p].pc = "render"
    /\ LET g == gen[p]
           fmt == g.formats[g.i]
           filename == generate_filename(fmt, g.job_title, g.company, now)
       IN \/ /\ dir' = [f \in DOMAIN dir \cup {filename} |->
                          IF f = filename
                          THEN [mtime |-> now, writer |-> p,
                                size |-> Len(ContentOf(p))]
                          ELSE dir[f]]
             /\ gen' = [gen EXCEPT ![p].pc = "stat", ![p].filename = filename,
                                   ![p].wrote = @ \cup {filename}]
          \/ /\ dir' = dir
             /\ gen' = [gen EXCEPT ![p] =
                    IF g.i < Len(g.formats)
                    THEN [g EXCEPT !.i = g.i + 1, !.failed = TRUE]
                    ELSE [g EXCEPT !.pc = "done", !.result = g.generated,
                                   !.failed = TRUE]]
    /\ UNCHANGED <<now, cln, content, pdfOut, docxOut, text, parsed, serviceVars>>

\* generate, lines 100-108: the file name and the rendering of formats[i];
\* the renderer writes the file or raises, and the except clause of line 124
\* turns whatever it raises into RuntimeError
GenRender(p) ==
    /\ gen[p].pc = "render"
    /\ LET fmt == gen[p].formats[gen[p].i]
           filename == generate_filename(fmt, gen[p].job_title, gen[p].company, now)
       IN \/ /\ fmt \in SUPPORTED_FORMATS
             /\ dir' = [f \in DOMAIN dir \cup {filename} |->
                          IF f = filename
                          THEN [mtime |-> now, writer |-> p,
                                size |-> Len(ContentOf(p))]
                          ELSE dir[f]]
             /\ gen' = [gen EXCEPT ![p].pc = "stat", ![p].filename = filename,
                                   ![p].wrote = @ \cup {filename}]
          \/ /\ dir' = dir
             /\ gen' = [gen EXCEPT ![p] =
                    IF fmt \in SUPPORTED_FORMATS
                    THEN [@ EXCEPT !.pc = "done", !.filename = filename,
                                   !.raised = "RuntimeError", !.failed = TRUE]
                    ELSE [@ EXCEPT !.pc = "stat", !.filename = filename]]
    /\ UNCHANGED <<now, cln, content, pdfOut, docxOut, text, parsed, serviceVars>>

\* generate with each document put in front of the list instead of appended
GenStat_NewestFirst(p) ==
    /\ gen[p].pc = "stat"
    /\ LET g == gen[p]
           fmt == g.formats[g.i]
       IN IF g.filename \in DOMAIN dir
          THEN LET doc == [path |-> g.filename, format |-> fmt, filename |-> g.filename,
                           size_bytes |-> dir[g.filename].size]
                   generated == <<doc>> \o g.generated
               IN gen' = [gen EXCEPT ![p] =
                      IF g.i < Len(g.formats)
                      THEN [g EXCEPT !.generated = generated, !.i = g.i + 1,
                                     !.pc = "render"]
                      ELSE [g EXCEPT !.generated = generated, !.result = generated,
                                     !.pc = "done"]]
          ELSE gen' = [gen EXCEPT ![p].pc = "done", ![p].raised = "RuntimeError",
                                  ![p].failed = TRUE]
    /\ UNCHANGED <<now, dir, cln, content, pdfOut, docxOut, text, parsed, serviceVars>>

\* generate, lines 110-128: stat of the written file, the GeneratedDocument,
\* the next format or the return
GenStat(p) ==
    /\ gen[p].pc = "stat"
    /\ LET g == gen[p]
           fmt == g.formats[g.i]
       IN IF g.filename \in DOMAIN dir
          THEN LET doc == [path |-> g.filename, format |-> fmt, filename |-> g.filename,
                           size_bytes |-> dir[g.filename].size]
                   generated == Append(g.generated, doc)
               IN gen' = [gen EXCEPT ![p] =
                      IF g.i < Len(g.formats)
                      THEN [g EXCEPT !.generated = generated, !.i = g.i + 1,
                                     !.pc = "render"]
                      ELSE [g EXCEPT !.generated = generated, !.result = generated,
                                     !.pc = "done"]]
          ELSE gen' = [gen EXCEPT ![p].pc = "done", ![p].raised = "RuntimeError",
                                  ![p].failed = TRUE]
    /\ UNCHANGED <<now, dir, cln, content, pdfOut, docxOut, text, parsed, serviceVars>>

\* cleanup_old_files, lines 464-467: the glob and the early return
ClnStart(c) ==
    /\ cln[c].pc = "idle"
    /\ \E keep_count \in KeepCounts :
          LET found == DOMAIN dir
              call == [cln[c] EXCEPT !.keep_count = keep_count, !.found = found,
                                     !.seen = [f \in found |-> dir[f].mtime]]
          IN cln' = [cln EXCEPT ![c] =
                 IF Cardinality(found) <= keep_count
                 THEN [call EXCEPT !.pc = "done", !.result = 0]
                 ELSE [call EXCEPT !.pc = "sort"]]
    /\ UNCHANGED <<now, dir, gen, content, pdfOut, docxOut, text, parsed, serviceVars>>

\* cleanup_old_files, line 470: the sort stats every globbed file, and raises
\* when one is gone; line 474 selects files[keep_count:]
ClnSort(c) ==
    /\ cln[c].pc = "sort"
    /\ IF cln[c].found \subseteq DOMAIN dir
       THEN LET mtime == [f \in cln[c].found |-> dir[f].mtime]
            IN \E files \in SortedByMtimeDesc(cln[c].found, mtime) :
                  cln' = [cln EXCEPT ![c].files = files, ![c].seen = mtime,
                                     ![c].todo = SliceFrom(files, cln[c].keep_count),
                                     ![c].idx = 1, ![c].pc = "delete"]
       ELSE cln' = [cln EXCEPT ![c].pc = "done", ![c].raised = "FileNotFoundError"]
    /\ UNCHANGED <<now, dir, gen, content, pdfOut, docxOut, text, parsed, serviceVars>>

\* the deletion loop without the try/except: a failed unlink ends the call
ClnUnlink_RaisesOnFailure(c) ==
    /\ cln[c].pc = "delete"
    /\ cln[c].idx <= Len(cln[c].todo)
    /\ LET file == cln[c].todo[cln[c].idx]
       IN \/ /\ file \in DOMAIN dir
             /\ dir' = [f \in DOMAIN dir \ {file} |-> dir[f]]
             /\ cln' = [cln EXCEPT ![c].deleted = @ + 1, ![c].idx = @ + 1,
                                   ![c].removed = @ \cup {file}]
          \/ /\ dir' = dir
             /\ cln' = [cln EXCEPT ![c].pc = "done", ![c].raised = "OSError",
                                   ![c].unlink_failed = TRUE]
    /\ UNCHANGED <<now, gen, content, pdfOut, docxOut, text, parsed, serviceVars>>

\* cleanup_old_files, lines 474-480: one iteration of the deletion loop; unlink
\* removes the file, or raises (the file is gone, or cannot be removed) and the
\* except clause logs and goes on
ClnUnlink(c) ==
    /\ cln[c].pc = "delete"
    /\ cln[c].idx <= Len(cln[c].todo)
    /\ LET file == cln[c].todo[cln[c].idx]
       IN \/ /\ file \in DOMAIN dir
             /\ dir' = [f \in DOMAIN dir \ {file} |-> dir[f]]
             /\ cln' = [cln EXCEPT ![c].deleted = @ + 1, ![c].idx = @ + 1,
                                   ![c].removed = @ \cup {file}]
          \/ /\ dir' = dir
             /\ cln' = [cln EXCEPT ![c].idx = @ + 1, ![c].unlink_failed = TRUE]
    /\ UNCHANGED <<now, gen, content, pdfOut, docxOut, text, parsed, serviceVars>>

\* cleanup_old_files, lines 482-485: the return of the count
ClnReturn(c) ==
    /\ cln[c].pc = "delete"
    /\ cln[c].idx > Len(cln[c].todo)
    /\ cln' = [cln EXCEPT ![c].pc = "done", ![c].result = cln[c].deleted]
    /\ UNCHANGED <<now, dir, gen, content, pdfOut, docxOut, text, parsed, serviceVars>>

\* The endpoints are coroutines that call generate and cleanup_old_files
\* without awaiting: on the one event loop of the server a call runs to its end
\* before the next one starts, while the clock goes on.
Next ==
    \/ Tick
    \/ \E p \in Gens : NoCallRunning /\ GenStart(p)
    \/ \E p \in Gens : GenRender(p)
    \/ \E p \in Gens : GenStat(p)
    \/ \E c \in Cleans : NoCallRunning /\ ClnStart(c)
    \/ \E c \in Cleans : ClnSort(c)
    \/ \E c \in Cleans : ClnUnlink(c)
    \/ \E c \in Cleans : ClnReturn(c)

Spec == InitFiles /\ [][Next]_vars

\* ---------------------------------------------------------------- calls that overlap
\* Several server processes (uvicorn workers, or two servers) share one output
\* directory: a call of generate in one and calls of cleanup_old_files in
\* others overlap, and each file-system operation is one step. An earlier
\* request has left its PDF and its DOCX in the directory a second ago. Two
\* calls overlap: a generate and a cleanup, or two cleanups.
InitRace ==
    /\ now = TicksPerSecond
    /\ dir = [f \in {generate_filename(PDF, <<>>, <<>>, 0),
                     generate_filename(DOCX, <<>>, <<>>, 0)} |->
                [mtime |-> 0, writer |-> "g2", size |-> Len(ContentOf("g2"))]]
    /\ \E calls \in {{"g1", "c1"}, {"c1", "c2"}} :
          /\ gen = [p \in Gens |-> IF p \in calls THEN GenIdle
                                   ELSE [GenIdle EXCEPT !.pc = "off"]]
          /\ cln = [c \in Cleans |-> IF c \in calls THEN ClnIdle
                                     ELSE [ClnIdle EXCEPT !.pc = "off"]]
    /\ content = <<<<>>>>
    /\ pdfOut = NotRendered
    /\ docxOut = NotRendered
    /\ text = <<<<>>>>
    /\ parsed = NotParsed
    /\ ServiceUnused

NextRace ==
    \/ Tick
    \/ \E p \in Gens : GenStart(p)
    \/ \E p \in Gens : GenRender(p)
    \/ \E p \in Gens : GenStat(p)
    \/ \E c \in Cleans : ClnStart(c)
    \/ \E c \in Cleans : ClnSort(c)
    \/ \E c \in Cleans : ClnUnlink(c)
    \/ \E c \in Cleans : ClnReturn(c)

SpecRace == InitRace /\ [][NextRace]_vars

\* ---------------------------------------------------------------- rendering a tailored text
InitRender ==
    /\ content \in Texts
    /\ pdfOut = NotRendered
    /\ docxOut = NotRendered
    /\ text = <<<<>>>>
    /\ parsed = NotParsed
    /\ now = 0
    /\ dir = <<>>
    /\ gen = [p \in Gens |-> [GenIdle EXCEPT !.pc = "off"]]
    /\ cln = [c \in Cleans |-> [ClnIdle EXCEPT !.pc = "off"]]
    /\ ServiceUnused

GeneratePdf ==
    /\ ~pdfOut.done
    /\ LET r == generate_pdf(content)
       IN pdfOut' = [done |-> TRUE, doc |-> r.doc, cls |-> r.cls]
    /\ UNCHANGED <<content, docxOut, text, parsed, now, dir, gen, cln, serviceVars>>

GenerateDocx ==
    /\ ~docxOut.done
    /\ LET r == generate_docx(content)
       IN docxOut' = [done |-> TRUE, doc |-> r.doc, cls |-> r.cls]
    /\ UNCHANGED <<content, pdfOut, text, parsed, now, dir, gen, cln, serviceVars>>

NextRender == GeneratePdf \/ GenerateDocx

SpecRender == InitRender /\ [][NextRender]_vars

\* ---------------------------------------------------------------- segmenting a resume text
InitParse ==
    /\ text \in CleanTexts
    /\ parsed = NotParsed
    /\ content = <<<<>>>>
    /\ pdfOut = NotRendered
    /\ docxOut = NotRendered
    /\ now = 0
    /\ dir = <<>>
    /\ gen = [p \in Gens |-> [GenIdle EXCEPT !.pc = "off"]]
    /\ cln = [c \in Cleans |-> [ClnIdle EXCEPT !.pc = "off"]]
    /\ ServiceUnused

ExtractSections ==
    /\ ~parsed.done
    /\ LET r == extract_sections(text)
       IN parsed' = [done |-> TRUE, sections |-> r.sections, heads |-> r.heads]
    /\ UNCHANGED <<content, pdfOut, docxOut, text, now, dir, gen, cln, serviceVars>>

NextParse == ExtractSections

SpecParse == InitParse /\ [][NextParse]_vars

\* ---------------------------------------------------------------- naming one file
\* every variable of the renderer, the segmenter and the output directory at rest
CoreUnused ==
    /\ content = <<<<>>>>
    /\ pdfOut = NotRendered
    /\ docxOut = NotRendered
    /\ text = <<<<>>>>
    /\ parsed = NotParsed
    /\ now = 0
    /\ dir = <<>>
    /\ gen = [p \in Gens |-> [GenIdle EXCEPT !.pc = "off"]]
    /\ cln = [c \in Cleans |-> [ClnIdle EXCEPT !.pc = "off"]]

\* the companies and job titles of the requests; <<>> is an absent one
NameCompanies ==
    { <<>>, <<"A","c","m","e",","," ","I","n","c","!">>, <<"B","i","g"," ","\t"," ","C","o">>, <<":">>, <<" ","_","x","_"," ">>,
      <<"A","A","A","A","A","A","A","A","A","A","A","A","A","A","A","A","A","A","A","A","A","A","A","A","A","A","A","A","A"," ","b"," ","c">> }
NameTitles == { <<>>, <<"D","e","v">>, <<"?">>, <<"S","r","."," ","D","e","v">> }

InitName ==
    /\ nameIn \in [format : SUPPORTED_FORMATS, job_title : NameTitles,
                    company : NameCompanies, t : 0..MaxTime]
    /\ nameOut = NotRun
    /\ response = <<>>
    /\ tailored = NotRun
    /\ rawText = <<>>
    /\ cleaned = NotRun
    /\ skillsIn = <<>>
    /\ skills = NotRun
    /\ req = [pc |-> "off"]
    /\ CoreUnused

\* one call of _generate_filename; company_parts and title_parts are what the
\* two if-blocks appended to parts
GenerateFilename ==
    /\ ~nameOut.done
    /\ nameOut' = [done |-> TRUE,
                   filename |-> generate_filename(nameIn.format, nameIn.job_title,
                                                  nameIn.company, nameIn.t),
                   company_parts |-> component(nameIn.company),
                   title_parts |-> component(nameIn.job_title)]
    /\ UNCHANGED <<nameIn, response, tailored, rawText, cleaned, skillsIn, skills, req>>
    /\ UNCHANGED <<content, pdfOut, docxOut, text, parsed, now, dir, gen, cln>>

NextName == GenerateFilename

SpecName == InitName /\ [][NextName]_vars

\* ---------------------------------------------------------------- parsing the model's response
\* an optional value (None or a value) is a sequence of length 0 or 1
\* the tag names of the five blocks
TAG ==
    [resume |-> <<"T","A","I","L","O","R","E","D","_","R","E","S","U","M","E">>,
     summary |-> <<"S","U","M","M","A","R","Y">>,
     keywords |-> <<"M","A","T","C","H","E","D","_","K","E","Y","W","O","R","D","S">>,
     suggestions |-> <<"S","U","G","G","E","S","T","I","O","N","S">>,
     score |-> <<"A","T","S","_","S","C","O","R","E">>]
OpenTag(name) == <<"<">> \o name \o <<">">>
CloseTag(name) == <<"<", "/">> \o name \o <<">">>

\* the positions at or after from where p occurs in s, letter case ignored
\* (re.IGNORECASE)
Occurrences(s, p, from) ==
    {i \in from..(Len(s) - Len(p) + 1) :
        \A k \in 1..Len(p) : ToLowerChar(s[i + k - 1]) = ToLowerChar(p[k])}

Least(S) == CHOOSE i \in S : \A j \in S : i <= j

\* re.search(r"<NAME>\s*(.*?)\s*</NAME>", s, re.DOTALL | re.IGNORECASE): the
\* match starts at the first opening tag that a closing tag follows, and group 1
\* is what lies between it and the next closing tag, less the whitespace that
\* the two \s* take; <<>> is no match, <<g>> a match with group 1 = g
search_block(s, name) ==
    LET opens == Occurrences(s, OpenTag(name), 1)
    IN IF opens = {} THEN <<>>
       ELSE LET start == Least(opens) + Len(OpenTag(name))
                closes == Occurrences(s, CloseTag(name), start)
            IN IF closes = {} THEN <<>>
               ELSE << strip(SubSeq(s, start, Least(closes) - 1)) >>

\* s.split(c)
RECURSIVE split_on(_, _)
split_on(s, c) ==
    IF ~Contains(s, c) THEN <<s>>
    ELSE LET k == Least({i \in 1..Len(s) : s[i] = c})
         IN <<SubSeq(s, 1, k - 1)>> \o split_on(SubSeq(s, k + 1, Len(s)), c)

\* [x.strip() for x in seq]
stripped(seq) == [i \in 1..Len(seq) |-> strip(seq[i])]

\* the characters of line.lstrip("...-*") as the source file spells them: the
\* three characters that the bytes of a bullet read as Latin-1 give, "-", "*"
SuggestionMarkers == {"U+00E2", "U+20AC", "U+00A2", "-", "*"}

\* int(digits)
RECURSIVE int(_)
int(d) ==
    IF d = <<>> THEN 0
    ELSE 10 * int(SubSeq(d, 1, Len(d) - 1))
         + (CHOOSE v \in 0..9 : DigitChars[v + 1] = d[Len(d)])

\* re.search(r"<ATS_SCORE>\s*(\d+)\s*</ATS_SCORE>", s, re.IGNORECASE): the first
\* opening tag followed by whitespace, digits, whitespace and the closing tag
search_ats(s) ==
    LET Rest(i) == lstrip(SubSeq(s, i + Len(OpenTag(TAG.score)), Len(s)), Whitespace)
        Digits(r) == SubSeq(r, 1, Len(r) - Len(lstrip(r, {DigitChars[k] : k \in DOMAIN DigitChars})))
        After(r) == lstrip(SubSeq(r, Len(Digits(r)) + 1, Len(r)), Whitespace)
        hits == {i \in Occurrences(s, OpenTag(TAG.score), 1) :
                    /\ Digits(Rest(i)) # <<>>
                    /\ 1 \in Occurrences(After(Rest(i)), CloseTag(TAG.score), 1)}
    IN IF hits = {} THEN <<>> ELSE << Digits(Rest(Least(hits))) >>

\* the tailored text without the fallback to the whole response
extract_tailored_resume_NoFallback(response_text) ==
    LET resume_match == search_block(response_text, TAG.resume)
    IN IF resume_match # <<>> THEN strip(resume_match[1]) ELSE <<>>

\* _parse_tailor_response: the tailored resume, or the whole response when the
\* tags are not found
extract_tailored_resume(response_text) ==
    LET resume_match == search_block(response_text, TAG.resume)
    IN IF resume_match # <<>> THEN strip(resume_match[1]) ELSE response_text

\* GeminiService._parse_tailor_response
parse_tailor_response(response_text) ==
    LET summary_match == search_block(response_text, TAG.summary)
        keywords_match == search_block(response_text, TAG.keywords)
        suggestions_match == search_block(response_text, TAG.suggestions)
        ats_match == search_ats(response_text)
        NonEmpty(k) == k # <<>>
        NotComment(l) == l # <<>> /\ ~startswith(l, <<"#">>)
        keywords == SelectSeq(stripped(split_on(strip(keywords_match[1]), ",")), NonEmpty)
        lines == SelectSeq(stripped(split(strip(suggestions_match[1]))), NotComment)
        min(a, b) == IF a < b THEN a ELSE b
        max(a, b) == IF a > b THEN a ELSE b
    IN [tailored_text |-> extract_tailored_resume(response_text),
        summary |-> IF summary_match # <<>> THEN <<strip(summary_match[1])>> ELSE <<>>,
        matched_keywords |->
            IF keywords_match # <<>>
            THEN keywords
            ELSE <<>>,
        suggestions |->
            IF suggestions_match # <<>>
            THEN [i \in 1..Len(lines) |-> strip(lstrip(lines[i], SuggestionMarkers))]
            ELSE <<>>,
        ats_score |->
            IF ats_match # <<>> THEN << max(0, min(100, int(ats_match[1]))) >> ELSE <<>>]

Optional(S) == {<<>>} \cup {<<x>> : x \in S}
\* the text of a block: its tags around its body, upper or lower case, and a
\* line break after it; nothing for an absent block
BlockText(name, b, case) ==
    IF b = <<>> THEN <<>>
    ELSE (IF case = "lower" THEN lower(OpenTag(name)) ELSE OpenTag(name))
         \o b[1].body
         \o (IF case = "lower" THEN lower(CloseTag(name)) ELSE CloseTag(name))
         \o <<"\n">>

\* a response: a preamble and the blocks that are present, in the prompt's
\* order or the reverse
ResponseText(r) ==
    LET seq == << BlockText(TAG.resume, r.resume, r.case),
                  BlockText(TAG.summary, r.summary, r.case),
                  BlockText(TAG.keywords, r.keywords, r.case),
                  BlockText(TAG.suggestions, r.suggestions, r.case),
                  BlockText(TAG.score, r.score, r.case) >>
    IN r.preamble \o
       (IF r.order = "forward"
        THEN seq[1] \o seq[2] \o seq[3] \o seq[4] \o seq[5]
        ELSE seq[5] \o seq[4] \o seq[3] \o seq[2] \o seq[1])

\* the responses: for each block, absent or one of its bodies, where body is
\* the text between the tags and value what the block says (for a score the
\* integer written, if one is written)
Responses ==
    [preamble : { <<>>, <<"O","K",":","\n">> },
     order : {"forward", "reverse"},
     case : {"upper", "lower"},
     resume : Optional(
        { [body |-> <<"\n","J","a","n","e","\n"," ","D","e","v"," ","\n">>, value |-> <<"J","a","n","e","\n"," ","D","e","v">>],
          [body |-> <<"J","o">>, value |-> <<"J","o">>] }),
     summary : Optional({ [body |-> <<" ","F","i","t"," ">>, value |-> <<"F","i","t">>], [body |-> <<>>, value |-> <<>>] }),
     keywords : Optional({ [body |-> <<"G","o",","," ","S","Q","L",",",",">>, value |-> <<<<"G","o">>, <<"S","Q","L">>>>] }),
     suggestions : Optional(
        { [body |-> <<"\n","-"," ","A","d","d"," ","G","o","\n","#"," ","n","o","t","e","\n","\n"," ","*"," ","C","u","t"," ","\n">>, value |-> <<<<"A","d","d"," ","G","o">>, <<"C","u","t">>>>] }),
     score : Optional(
        { [body |-> <<"8","5">>, value |-> <<85>>],
          [body |-> <<"1","5","0">>, value |-> <<150>>],
          [body |-> <<"-","5">>, value |-> <<0 - 5>>],
          [body |-> <<"a","b","c">>, value |-> <<>>],
          [body |-> <<" ","7"," ">>, value |-> <<7>>],
          [body |-> <<>>, value |-> <<>>],
          [body |-> <<"0">>, value |-> <<0>>] })]

InitResponse ==
    /\ \E r \in Responses : response = [blocks |-> r, text |-> ResponseText(r)]
    /\ tailored = NotRun
    /\ nameIn = <<>>
    /\ nameOut = NotRun
    /\ rawText = <<>>
    /\ cleaned = NotRun
    /\ skillsIn = <<>>
    /\ skills = NotRun
    /\ req = [pc |-> "off"]
    /\ CoreUnused

ParseTailorResponse ==
    /\ ~tailored.done
    /\ tailored' = [done |-> TRUE, content |-> parse_tailor_response(response.text)]
    /\ UNCHANGED <<nameIn, nameOut, response, rawText, cleaned, skillsIn, skills, req>>
    /\ UNCHANGED <<content, pdfOut, docxOut, text, parsed, now, dir, gen, cln>>

NextResponse == ParseTailorResponse

SpecResponse == InitResponse /\ [][NextResponse]_vars

\* ---------------------------------------------------------------- one request to the service
\* what a request meets: the resume file, the API key, the client library,
\* the generation call, the text of the reply, the renderer
Environments ==
    [kind : {"tailor", "extract"},
     resume : {"ok", "missing", "unsupported", "unreadable"},
     jd_short : BOOLEAN,
     api_key : BOOLEAN,
     client : {"ok", "ImportError", "Exception"},
     call : {"ok", "fail"},
     reply : {"usable", "not_json", "not_object", "no_text"},
     render : {"ok", "fail"}]

\* a request before its first step: stages are the stages started, succeeded
\* those that ended without an exception, calls counts generate_content,
\* files the files written, exc is the exception in flight, raised_in where
\* it was raised, result what the service method returned, and status/error
\* the HTTP response
ReqStart(env) ==
    [pc |-> "start", env |-> env, model_instance |-> FALSE,
     stages |-> <<>>, succeeded |-> {}, calls |-> 0, call_failed |-> FALSE, files |-> 0,
     exc |-> "none", raised_in |-> "none", result |-> "none",
     status |-> 0, error |-> "none"]

Raise(r, exc, where) == [r EXCEPT !.pc = "except", !.exc = exc, !.raised_in = where]

\* resume_tailor_exception_handler for the ResumeTailorException classes,
\* global_exception_handler for every other exception
exception_handler(exc) ==
    IF exc = "ResumeNotFoundError" THEN [status |-> 404, error |-> "RESUME_NOT_FOUND"]
    ELSE IF exc = "InvalidJobDescriptionError"
    THEN [status |-> 400, error |-> "INVALID_JOB_DESCRIPTION"]
    ELSE [status |-> 500, error |-> "INTERNAL_ERROR"]

InitService ==
    /\ \E env \in Environments : req = ReqStart(env)
    /\ nameIn = <<>>
    /\ nameOut = NotRun
    /\ response = <<>>
    /\ tailored = NotRun
    /\ rawText = <<>>
    /\ cleaned = NotRun
    /\ skillsIn = <<>>
    /\ skills = NotRun
    /\ CoreUnused

ServiceStep(r) ==
    /\ req' = r
    /\ UNCHANGED <<nameIn, nameOut, response, tailored, rawText, cleaned, skillsIn, skills>>
    /\ UNCHANGED <<content, pdfOut, docxOut, text, parsed, now, dir, gen, cln>>

\* the extraction stage goes on to the next stage although parsing failed
ParseResume_ContinuesOnFailure ==
    /\ req.pc = "start"
    /\ req.env.kind = "tailor"
    /\ LET r == [req EXCEPT !.stages = Append(@, "extraction")]
       IN ServiceStep(IF req.env.resume = "ok"
                      THEN [r EXCEPT !.pc = "init", !.succeeded = @ \cup {"extraction"}]
                      ELSE [r EXCEPT !.pc = "init"])

\* tailor_resume (app), step 1: ResumeParser(settings.resume_path).parse()
ParseResume ==
    /\ req.pc = "start"
    /\ req.env.kind = "tailor"
    /\ LET r == [req EXCEPT !.stages = Append(@, "extraction")]
       IN ServiceStep(
            IF req.env.resume = "ok"
            THEN [r EXCEPT !.pc = "init", !.succeeded = @ \cup {"extraction"}]
            ELSE IF req.env.resume = "missing" THEN Raise(r, "FileNotFoundError", "ResumeParser")
            ELSE IF req.env.resume = "unsupported" THEN Raise(r, "ValueError", "ResumeParser")
            ELSE Raise(r, "Exception", "ResumeParser"))

\* extract_job_details (app): the length check before the try
ValidateJobDescription ==
    /\ req.pc = "start"
    /\ req.env.kind = "extract"
    /\ ServiceStep(IF req.env.jd_short
                   THEN Raise(req, "InvalidJobDescriptionError", "app")
                   ELSE [req EXCEPT !.pc = "init"])

\* GeminiService.__init__: without a key only a warning, with a key
\* _initialize_client, which raises when the library or the model fails
CreateService ==
    /\ req.pc = "init"
    /\ ServiceStep(
         IF ~req.env.api_key THEN [req EXCEPT !.pc = "ensure"]
         ELSE IF req.env.client = "ok" THEN [req EXCEPT !.pc = "ensure", !.model_instance = TRUE]
         ELSE IF req.env.client = "ImportError"
         THEN Raise(req, "ImportError", "GeminiService.__init__")
         ELSE Raise(req, "RuntimeError", "GeminiService.__init__"))

\* the method the request calls on the service
Method(r) ==
    IF r.env.kind = "tailor" THEN "GeminiService.tailor_resume"
    ELSE "GeminiService.extract_job_details"

\* GeminiService._ensure_client, the first statement of tailor_resume and of
\* extract_job_details, before their try
EnsureClient ==
    /\ req.pc = "ensure"
    /\ ServiceStep(
         IF req.model_instance THEN [req EXCEPT !.pc = "call"]
         ELSE IF ~req.env.api_key THEN Raise(req, "RuntimeError", Method(req))
         ELSE IF req.env.client = "ok" THEN [req EXCEPT !.pc = "call", !.model_instance = TRUE]
         ELSE IF req.env.client = "ImportError" THEN Raise(req, "ImportError", Method(req))
         ELSE Raise(req, "RuntimeError", Method(req)))

\* the try block of tailor_resume with a second generate_content after a
\* failed one
TailorCall_RetriesOnce ==
    /\ req.pc = "call"
    /\ req.env.kind = "tailor"
    /\ LET r == [req EXCEPT !.stages = Append(@, "ai_call")]
       IN ServiceStep(
            IF req.env.call = "fail"
            THEN Raise([r EXCEPT !.calls = @ + 2, !.call_failed = TRUE],
                       "RuntimeError", Method(req))
            ELSE IF req.env.reply = "no_text"
            THEN Raise([r EXCEPT !.calls = @ + 1], "RuntimeError", Method(req))
            ELSE [r EXCEPT !.calls = @ + 1, !.pc = "render", !.result = "TailoredContent",
                           !.succeeded = @ \cup {"ai_call"}])

\* the try block of GeminiService.tailor_resume: one generate_content, then
\* _parse_tailor_response(response.text); every exception becomes RuntimeError
TailorCall ==
    /\ req.pc = "call"
    /\ req.env.kind = "tailor"
    /\ LET r == [req EXCEPT !.stages = Append(@, "ai_call"), !.calls = @ + 1]
       IN ServiceStep(
            IF req.env.call = "fail"
            THEN Raise([r EXCEPT !.call_failed = TRUE], "RuntimeError", Method(req))
            ELSE IF req.env.reply = "no_text"
            THEN Raise(r, "RuntimeError", Method(req))
            ELSE [r EXCEPT !.pc = "render", !.result = "TailoredContent",
                           !.succeeded = @ \cup {"ai_call"}])

\* the try block of GeminiService.extract_job_details: one generate_content,
\* then _parse_extraction_response(response.text); every exception gives an
\* empty JobDetails; the endpoint then answers with the record
ExtractCall ==
    /\ req.pc = "call"
    /\ req.env.kind = "extract"
    /\ LET r == [req EXCEPT !.calls = @ + 1, !.pc = "done", !.status = 200]
       IN ServiceStep(
            IF req.env.call = "fail"
            THEN [r EXCEPT !.call_failed = TRUE, !.result = "JobDetails()"]
            ELSE IF req.env.reply \in {"no_text", "not_object"}
            THEN [r EXCEPT !.result = "JobDetails()"]
            ELSE IF req.env.reply = "not_json"
            THEN [r EXCEPT !.result = "JobDetails(title, company)"]
            ELSE [r EXCEPT !.result = "JobDetails(...)"])

\* tailor_resume (app), step 4: DocumentGenerator.generate, then the response
GenerateDocuments ==
    /\ req.pc = "render"
    /\ LET r == [req EXCEPT !.stages = Append(@, "rendering")]
       IN ServiceStep(
            IF req.env.render = "fail" THEN Raise(r, "Exception", "DocumentGenerator")
            ELSE [r EXCEPT !.pc = "done", !.files = @ + 1, !.status = 200,
                           !.succeeded = @ \cup {"rendering"}])

\* the except clauses of the endpoint and the exception handlers of the
\* application: tailor_resume turns FileNotFoundError into
\* ResumeNotFoundError, everything else is raised again as it is
HandleException ==
    /\ req.pc = "except"
    /\ LET exc == IF req.env.kind = "tailor" /\ req.exc = "FileNotFoundError"
                  THEN "ResumeNotFoundError" ELSE req.exc
           answer == exception_handler(exc)
       IN ServiceStep([req EXCEPT !.pc = "done", !.exc = exc,
                                  !.status = answer.status, !.error = answer.error])

NextService ==
    \/ ParseResume
    \/ ValidateJobDescription
    \/ CreateService
    \/ EnsureClient
    \/ TailorCall
    \/ ExtractCall
    \/ GenerateDocuments
    \/ HandleException

SpecService == InitService /\ [][NextService]_vars

\* ---------------------------------------------------------------- cleaning the extracted text
\* the characters of a raw extracted text; "NUL" stands for the character \x00
RawChars == {"a", " ", "\t", "\n", "NUL"}

\* re.sub on runs: every maximal run of at least min characters of chars is
\* replaced by repl (r"[ \t]+" -> " " has min 1, r"\n{3,}" -> "\n\n" has min 3)
RECURSIVE sub_runs(_, _, _, _)
sub_runs(s, chars, min, repl) ==
    IF s = <<>> THEN <<>>
    ELSE LET rest == lstrip(s, chars)
             run == Len(s) - Len(rest)
         IN IF run >= min THEN repl \o sub_runs(rest, chars, min, repl)
            ELSE IF run > 0 THEN SubSeq(s, 1, run) \o sub_runs(rest, chars, min, repl)
            ELSE <<Head(s)>> \o sub_runs(Tail(s), chars, min, repl)

\* ResumeParser._clean_text
clean_text(raw_text) ==
    LET t1 == sub_runs(raw_text, {" ", "\t"}, 1, <<" ">>)
        t2 == sub_runs(t1, {"\n"}, 3, <<"\n", "\n">>)
        lines == [i \in 1..Len(split(t2)) |-> strip(split(t2)[i])]
        t3 == join(lines)
        t4 == SelectSeq(t3, LAMBDA c : c # "NUL")
    IN strip(t4)

InitClean ==
    /\ rawText \in SeqsUpTo(RawChars, MaxRaw)
    /\ cleaned = NotRun
    /\ nameIn = <<>>
    /\ nameOut = NotRun
    /\ response = <<>>
    /\ tailored = NotRun
    /\ skillsIn = <<>>
    /\ skills = NotRun
    /\ req = [pc |-> "off"]
    /\ CoreUnused

CleanText ==
    /\ ~cleaned.done
    /\ cleaned' = [done |-> TRUE, text |-> clean_text(rawText), again |-> <<>>]
    /\ UNCHANGED <<nameIn, nameOut, response, tailored, rawText, skillsIn, skills, req>>
    /\ UNCHANGED <<content, pdfOut, docxOut, text, parsed, now, dir, gen, cln>>

\* _clean_text applied to the text it returned
CleanAgain ==
    /\ cleaned.done
    /\ cleaned.again = <<>>
    /\ cleaned' = [cleaned EXCEPT !.again = << clean_text(cleaned.text) >>]
    /\ UNCHANGED <<nameIn, nameOut, response, tailored, rawText, skillsIn, skills, req>>
    /\ UNCHANGED <<content, pdfOut, docxOut, text, parsed, now, dir, gen, cln>>

NextClean == CleanText \/ CleanAgain

SpecClean == InitClean /\ [][NextClean]_vars

\* ---------------------------------------------------------------- extracting skills
\* the catalogue: four of the patterns of tech_skills, in the order of the source
tech_skills == << <<"g","o","\\","b">>, <<"n","o","d","e","\\",".","?","j","s">>, <<"s","q","l","\\","b">>,
                 <<"r","e","s","t","\\","s","?","a","p","i">> >>

\* whether pattern p matches s from position pos on; p is made of literal
\* characters, \b, \s, \., \+, each optional when a ? follows it
RECURSIVE match_from(_, _, _)
match_from(p, s, pos) ==
    IF p = <<>> THEN TRUE
    ELSE LET atom == IF p[1] = "\\" THEN SubSeq(p, 1, 2) ELSE <<p[1]>>
             after == SubSeq(p, Len(atom) + 1, Len(p))
             opt == after # <<>> /\ after[1] = "?"
             rest == IF opt THEN Tail(after) ELSE after
             IsWord(i) == i \in 1..Len(s) /\ (IsAlnum(s[i]) \/ s[i] = "_")
             hit == /\ pos <= Len(s)
                    /\ IF atom = <<"\\", "s">> THEN s[pos] \in Whitespace
                       ELSE ToLowerChar(s[pos]) = ToLowerChar(atom[Len(atom)])
         IN IF atom = <<"\\", "b">>
            THEN (IsWord(pos - 1) # IsWord(pos)) /\ match_from(rest, s, pos)
            ELSE (hit /\ match_from(rest, s, pos + 1)) \/ (opt /\ match_from(rest, s, pos))

\* re.search(rf"\b{skill_pattern}\b", search_text_lower, re.IGNORECASE)
re_search(skill_pattern, s) ==
    \E pos \in 1..(Len(s) + 1) :
        match_from(<<"\\", "b">> \o skill_pattern \o <<"\\", "b">>, s, pos)

\* s.replace(old, new)
RECURSIVE str_replace(_, _, _)
str_replace(s, old, new) ==
    IF s = <<>> THEN <<>>
    ELSE IF startswith(s, old)
    THEN new \o str_replace(SubSeq(s, Len(old) + 1, Len(s)), old, new)
    ELSE <<Head(s)>> \o str_replace(Tail(s), old, new)

\* the display name of a pattern: the replace chain, then upper() for names of
\* at most four characters and title() for longer ones
skill_name(skill_pattern) ==
    LET c1 == str_replace(skill_pattern, <<"\\", "b">>, <<>>)
        c2 == str_replace(c1, <<"\\", ".">>, <<".">>)
        c3 == str_replace(c2, <<"\\", "s", "?">>, <<" ">>)
        c4 == str_replace(c3, <<"\\", "+">>, <<"+">>)
        skill_clean == str_replace(c4, <<"?">>, <<>>)
        Up(c) == IF IsLowerChar(c)
                 THEN UpperChars[CHOOSE i \in DOMAIN LowerChars : LowerChars[i] = c]
                 ELSE c
        Cased(c) == IsUpperChar(c) \/ IsLowerChar(c)
        upper(s) == [i \in 1..Len(s) |-> Up(s[i])]
        title(s) == [i \in 1..Len(s) |->
                        IF i = 1 \/ ~Cased(s[i - 1]) THEN Up(s[i]) ELSE ToLowerChar(s[i])]
    IN IF Len(skill_clean) <= 4 THEN upper(skill_clean) ELSE title(skill_clean)

\* the for loop over the catalogue, taken in the given order: skills.add(...)
\* for every pattern found
RECURSIVE collect(_, _, _)
collect(order, search_text_lower, found) ==
    IF order = <<>> THEN found
    ELSE collect(Tail(order), search_text_lower,
                 IF re_search(Head(order), search_text_lower)
                 THEN found \cup {skill_name(Head(order))}
                 ELSE found)

\* the characters of the skill names in code-point order, and a < b for strings
CodePoints == <<" ", "#", "+", "-", ".", "/">> \o DigitChars \o UpperChars \o LowerChars
StrLess(a, b) ==
    LET Ord(c) == CHOOSE i \in DOMAIN CodePoints : CodePoints[i] = c
    IN \E k \in 1..(Len(a) + 1) :
          /\ k <= Len(b)
          /\ \A i \in 1..(k - 1) : a[i] = b[i]
          /\ k = Len(a) + 1 \/ Ord(a[k]) < Ord(b[k])

\* the list returned as the set happened to list it
sorted_AsListed(l) == l

\* sorted(l)
RECURSIVE sorted(_)
sorted(l) ==
    IF l = <<>> THEN <<>>
    ELSE LET rest == sorted(Tail(l))
             k == Cardinality({i \in 1..Len(rest) : StrLess(rest[i], Head(l))})
         IN SubSeq(rest, 1, k) \o <<Head(l)>> \o SubSeq(rest, k + 1, Len(rest))

\* the orders in which the elements of a set can be listed: list(skills) of a
\* Python set, whose order depends on the hash seed
Orderings(S) ==
    {s \in [1..Cardinality(S) -> S] : \A a, b \in DOMAIN s : a # b => s[a] # s[b]}

\* ResumeParser._extract_skills with the catalogue taken in the given order:
\* the lists it can return
extract_skills(full_text, skills_section, order) ==
    LET search_text == IF skills_section # <<>> THEN skills_section ELSE full_text
        found == collect(order, lower(search_text), {})
    IN {sorted(l) : l \in Orderings(found)}

\* resume texts and skills sections
SkillWords == { <<"G","o">>,
               <<"S","Q","L">>,
               <<"n","o","d","e",".","j","s">>,
               <<"n","o","d","e","j","s">>,
               <<"R","E","S","T"," ","A","P","I">>,
               <<"m","y","s","q","l">>,
               <<"g","o","l","a","n","g">> }
SkillTexts ==
    SkillWords \cup {a \o <<",", " ">> \o b : a, b \in SkillWords}
    \cup { <<"G","o",","," ","S","Q","L",","," ","N","o","d","e",".","j","s",","," ","R","E","S","T"," ","A","P","I">> }

InitSkills ==
    /\ skillsIn \in [full_text : SkillTexts, skills_section : {<<>>, <<"s","q","l",","," ","g","o">>}]
    /\ skills = [done |-> FALSE, runs |-> <<>>]
    /\ nameIn = <<>>
    /\ nameOut = NotRun
    /\ response = <<>>
    /\ tailored = NotRun
    /\ rawText = <<>>
    /\ cleaned = NotRun
    /\ req = [pc |-> "off"]
    /\ CoreUnused

\* one run of _extract_skills, at most two on the same input, the catalogue
\* in the order of the source or in any other
ExtractSkills ==
    /\ Len(skills.runs) < 2
    /\ \E order \in Orderings({tech_skills[i] : i \in DOMAIN tech_skills}) :
         \E list \in extract_skills(skillsIn.full_text, skillsIn.skills_section, order) :
            skills' = [done |-> TRUE,
                       runs |-> Append(skills.runs,
                                       [source_order |-> order = tech_skills, list |-> list])]
    /\ UNCHANGED <<nameIn, nameOut, response, tailored, rawText, cleaned, skillsIn, req>>
    /\ UNCHANGED <<content, pdfOut, docxOut, text, parsed, now, dir, gen, cln>>

NextSkills == ExtractSkills

SpecSkills == InitSkills /\ [][NextSkills]_vars

\* ---------------------------------------------------------------- the parsed resume
\* cleaned resume texts, as lines: a first line that may or may not pass for
\* a name, a second one that would, then a skills section under one of the
\* headings of the catalogue entry, and text under a later heading or none
ProfileTexts ==
    LET Maybe(S) == {<<>>} \cup {<<x>> : x \in S}
        firsts == Maybe({ <<"J","a","n","e"," ","D","o","e">>, <<"a","@","x",".","i","o">>, <<"1"," ","M","a","i","n"," ","S","t">>, <<"(","5","5","5",")">>,
                          <<"A","A","A","A","A","A","A","A","A","A","A","A","A","A","A","A","A","A","A","A","A","A","A","A","A","A","A","A","A","A","A","A","A","A","A","A","A","A","A","A","A","A","A","A","A","A","A","A","A">>,
                          <<"A","A","A","A","A","A","A","A","A","A","A","A","A","A","A","A","A","A","A","A","A","A","A","A","A","A","A","A","A","A","A","A","A","A","A","A","A","A","A","A","A","A","A","A","A","A","A","A","A","A">> })
        seconds == Maybe({ <<"J","o"," ","R","o","e">> })
        headings == Maybe({ <<"S","k","i","l","l","s">>, <<"S","k","i","l","l","s",":">>, <<"T","e","c","h","n","i","c","a","l"," ","S","k","i","l","l","s">> })
        bodies == { <<>>, << <<"G","o">> >>, << <<>>, <<"G","o">> >> }
        afters == { <<>>, << <<"S","Q","L">> >>, << <<"M","Y"," ","W","O","R","K">>, <<"S","Q","L">> >> }
        all == {f \o s \o h \o b \o a :
                  f \in firsts, s \in seconds, h \in headings, b \in bodies, a \in afters}
    IN {IF t = <<>> THEN << <<>> >> ELSE t : t \in {t \in all : strip(join(t)) = join(t)}}

\* sections.get(key, default)
dict_get(d, key, default) ==
    IF \E i \in DOMAIN d : d[i].key = key
    THEN d[CHOOSE i \in DOMAIN d : d[i].key = key].value
    ELSE default

\* the name any non-empty line is taken for
contact_name_AnyLine(lines_of_text) ==
    LET lines == SelectSeq(stripped(lines_of_text), LAMBDA l : l # <<>>)
        ok(l) == /\ ~Contains(l, "@")
                 /\ Len(l) < 50
                 /\ \E i \in 1..Len(l) : IsUpperChar(l[i]) \/ IsLowerChar(l[i])
                 /\ l[1] \notin {DigitChars[k] : k \in DOMAIN DigitChars}
        good == SelectSeq(lines, ok)
    IN IF good # <<>> THEN << good[1] >> ELSE <<>>

\* ResumeParser._extract_contact_info, the name: lines[0] of the stripped
\* non-empty lines if it looks like a name; <<>> is no name
contact_name(lines_of_text) ==
    LET lines == SelectSeq(stripped(lines_of_text), LAMBDA l : l # <<>>)
        potential_name == lines[1]
    IN IF /\ lines # <<>>
          /\ ~Contains(potential_name, "@")
          /\ Len(potential_name) < 50
          /\ \E i \in 1..Len(potential_name) :
                IsUpperChar(potential_name[i]) \/ IsLowerChar(potential_name[i])
          /\ potential_name[1] \notin {DigitChars[k] : k \in DOMAIN DigitChars}
       THEN << potential_name >>
       ELSE <<>>

InitProfile ==
    /\ text \in ProfileTexts
    /\ parsed = NotParsed
    /\ content = <<<<>>>>
    /\ pdfOut = NotRendered
    /\ docxOut = NotRendered
    /\ now = 0
    /\ dir = <<>>
    /\ gen = [p \in Gens |-> [GenIdle EXCEPT !.pc = "off"]]
    /\ cln = [c \in Cleans |-> [ClnIdle EXCEPT !.pc = "off"]]
    /\ ServiceUnused

\* ResumeParser.parse after _clean_text: sections, contact_info, skills
ParseProfile ==
    /\ ~parsed.done
    /\ LET r == extract_sections(text)
           skills_section == dict_get(r.sections, <<"s","k","i","l","l","s">>, <<>>)
       IN \E list \in extract_skills(join(text), skills_section, tech_skills) :
             parsed' = [done |-> TRUE, sections |-> r.sections, heads |-> r.heads,
                        name |-> contact_name(text), skills |-> list]
    /\ UNCHANGED <<content, pdfOut, docxOut, text, now, dir, gen, cln, serviceVars>>

NextProfile == ParseProfile

SpecProfile == InitProfile /\ [][NextProfile]_vars

\* ---------------------------------------------------------------- claims: generate and cleanup
Started(g) == g.pc \notin {"idle", "off"}

\* C6: a call of generate whose formats list holds an unsupported entry, at
\* whatever position, fails with ValueError and has written no file.
C6_UnsupportedFormatWritesNothing ==
    \A p \in Gens :
        (Started(gen[p]) /\ \E k \in DOMAIN gen[p].formats :
                                gen[p].formats[k] \notin SUPPORTED_FORMATS) =>
            /\ gen[p].pc = "done"
            /\ gen[p].raised = "ValueError"
            /\ gen[p].wrote = {}
            /\ gen[p].result = <<>>

\* a call with a supported format before the unsupported one was refused
C6_Witness ==
    \E p \in Gens :
        /\ gen[p].formats = <<PDF, TXT>>
        /\ gen[p].raised = "ValueError"
        /\ gen[p].wrote = {}

\* C7 (as claimed): when the rendering of a format fails, generate raises,
\* returns no document, and no file this call wrote for an earlier format
\* remains in the output directory.
C7_NoFileOfFailedBatchRemains ==
    \A p \in Gens :
        gen[p].failed =>
            /\ gen[p].raised = "RuntimeError"
            /\ gen[p].result = <<>>
            /\ \A f \in gen[p].wrote : f \in DOMAIN dir => dir[f].writer # p

\* C7 (amended): when the rendering of a format fails, generate ends at once
\* with RuntimeError and returns no document; it deletes nothing, so every file
\* it wrote for an earlier format stays in the output directory until a
\* cleanup removes it.
C7_FailureAbortsFilesStay ==
    \A p \in Gens :
        gen[p].failed =>
            /\ gen[p].pc = "done"
            /\ gen[p].raised = "RuntimeError"
            /\ gen[p].result = <<>>
            /\ \A f \in gen[p].wrote :
                  f \in DOMAIN dir \/ \E c \in Cleans : f \in cln[c].removed

\* the second format of a batch failed and the file of the first is still there
C7_Witness ==
    \E p \in Gens :
        /\ gen[p].failed
        /\ gen[p].i = 2
        /\ gen[p].wrote # {}
        /\ \A f \in gen[p].wrote : f \in DOMAIN dir /\ dir[f].writer = p

Injective(fn) == \A a, b \in DOMAIN fn : a # b => fn[a] # fn[b]

Excess(n, keep_count) == IF n > keep_count THEN n - keep_count ELSE 0

\* C8: on a directory of n files with distinct modification times, with
\* keep_count >= 0 and no failed deletion, cleanup_old_files deletes exactly
\* the max(0, n - keep_count) oldest files, leaves the others, and returns
\* that number.
C8_DeletesOldestBeyondKeep ==
    \A c \in Cleans :
        LET k == cln[c]
            n == Cardinality(k.found)
        IN (/\ k.pc = "done" /\ k.raised = "none"
            /\ k.keep_count >= 0
            /\ ~k.unlink_failed
            /\ Injective(k.seen)) =>
               /\ k.result = Excess(n, k.keep_count)
               /\ Cardinality(k.removed) = Excess(n, k.keep_count)
               /\ k.removed \subseteq k.found
               /\ \A r \in k.removed : \A s \in k.found \ k.removed :
                     k.seen[r] < k.seen[s]
               /\ (k.found \ k.removed) \subseteq DOMAIN dir

\* a cleanup that kept one of at least three files of distinct mtimes
C8_Witness ==
    \E c \in Cleans :
        /\ cln[c].pc = "done" /\ cln[c].raised = "none"
        /\ ~cln[c].unlink_failed
        /\ Injective(cln[c].seen)
        /\ cln[c].keep_count = 1
        /\ Cardinality(cln[c].found) >= 3
        /\ cln[c].result = Cardinality(cln[c].found) - 1

\* C9: a failed deletion neither raises nor stops cleanup_old_files: every
\* selected file is attempted, and the count returned is the number of files
\* actually removed.
C9_FailedUnlinkSkipped ==
    \A c \in Cleans :
        LET k == cln[c]
        IN /\ k.unlink_failed => k.raised = "none"
           /\ (k.pc = "done" /\ k.todo # <<>>) =>
                 /\ k.idx = Len(k.todo) + 1
                 /\ k.result = Cardinality(k.removed)
                 /\ k.removed \subseteq {k.todo[j] : j \in DOMAIN k.todo}

\* the first selected file could not be deleted, a later one was
C9_Witness ==
    \E c \in Cleans :
        /\ cln[c].pc = "done"
        /\ cln[c].unlink_failed
        /\ Len(cln[c].todo) >= 2
        /\ cln[c].todo[1] \notin cln[c].removed
        /\ cln[c].result >= 1

\* C10: two calls of generate never write to the same path, whatever their
\* company, job title and format and however close in time they are.
C10_CallsWriteDistinctPaths ==
    \A p, q \in Gens :
        p # q => gen[p].wrote \cap gen[q].wrote = {}

\* ---------------------------------------------------------------- claims: line classification
IsBlank(line) == strip(line) = <<>>
IsNonBlank(line) == strip(line) # <<>>

\* the branch the claimed priority order gives line i: separator, section
\* header, bullet, pipe-delimited, name (the first line none of these takes), body
ClaimPlain(line) ==
    /\ IsNonBlank(line)
    /\ ~is_separator(line)
    /\ ~is_section_header(line)
    /\ ~IsBulletLine(strip(line))
    /\ ~IsPipeLine(strip(line))

ClaimClass(lines, i) ==
    LET line == strip(lines[i]) IN
    IF IsBlank(line) THEN "blank"
    ELSE IF is_separator(line) THEN "separator"
    ELSE IF is_section_header(line) THEN "header"
    ELSE IF IsBulletLine(line) THEN "bullet"
    ELSE IF IsPipeLine(line) THEN "pipe"
    ELSE IF \A j \in 1..(i - 1) : ~ClaimPlain(lines[j]) THEN "name"
    ELSE "body"

\* a line that is neither blank, nor a separator, nor a section header
IsContent(line) ==
    IsNonBlank(line) /\ ~is_separator(line) /\ ~is_section_header(line)

\* the order the renderers apply: separator, name (the first content line,
\* whatever its shape), section header, bullet, pipe-delimited, body
NameFirstClass(lines, i) ==
    LET line == strip(lines[i]) IN
    IF IsBlank(line) THEN "blank"
    ELSE IF is_separator(line) THEN "separator"
    ELSE IF IsContent(line) /\ \A j \in 1..(i - 1) : ~IsContent(lines[j]) THEN "name"
    ELSE IF is_section_header(line) THEN "header"
    ELSE IF IsBulletLine(line) THEN "bullet"
    ELSE IF IsPipeLine(line) THEN "pipe"
    ELSE "body"

\* C1 (as claimed): both renderers classify every line by the first matching
\* rule in the order separator, section header, bullet, pipe-delimited, name,
\* body; a bullet or pipe line is never the name title.
C1_ClaimedOrder ==
    /\ pdfOut.done =>
         \A i \in DOMAIN content : pdfOut.cls[i] = ClaimClass(content, i)
    /\ docxOut.done =>
         \A i \in DOMAIN content : docxOut.cls[i] = ClaimClass(content, i)

\* C1 (amended): both renderers classify every line by the first matching rule
\* in the order separator, name, section header, bullet, pipe-delimited, body,
\* where the name is the first line that is neither blank, a separator nor a
\* section header, whatever its shape; it is designated at most once.
C1_NameFirstOrder ==
    /\ pdfOut.done =>
         /\ Len(pdfOut.cls) = Len(content)
         /\ \A i \in DOMAIN content : pdfOut.cls[i] = NameFirstClass(content, i)
         /\ Cardinality({i \in DOMAIN content : pdfOut.cls[i] = "name"}) <= 1
    /\ docxOut.done =>
         /\ Len(docxOut.cls) = Len(content)
         /\ \A i \in DOMAIN content : docxOut.cls[i] = NameFirstClass(content, i)
         /\ Cardinality({i \in DOMAIN content : docxOut.cls[i] = "name"}) <= 1

\* a bullet line that is the first content line was rendered as the name by
\* both renderers, and a later bullet line as a bullet
C1_Witness ==
    /\ pdfOut.done /\ docxOut.done
    /\ \E i, j \in DOMAIN content :
          /\ i < j
          /\ IsBulletLine(strip(content[i])) /\ IsBulletLine(strip(content[j]))
          /\ pdfOut.cls[i] = "name" /\ docxOut.cls[i] = "name"
          /\ pdfOut.cls[j] = "bullet" /\ docxOut.cls[j] = "bullet"

\* ---------------------------------------------------------------- claims: section segmenter
RECURSIVE FlattenBodies(_)
FlattenBodies(sections) ==
    IF sections = <<>> THEN <<>>
    ELSE SelectSeq(split(sections[1].value), IsNonBlank) \o FlattenBodies(Tail(sections))

RECURSIVE NonHeadingLines(_, _)
NonHeadingLines(lines, heads) ==
    IF lines = <<>> THEN <<>>
    ELSE (IF ~Head(heads) /\ IsNonBlank(Head(lines)) THEN <<Head(lines)>> ELSE <<>>)
         \o NonHeadingLines(Tail(lines), Tail(heads))

\* C2: with at least one recognized heading, the non-blank lines of the section
\* bodies, taken in map order, are exactly the non-blank non-heading lines of
\* the input in input order: none is lost, none duplicated.
C2_NoLineLostOrDuplicated ==
    (parsed.done /\ \E i \in DOMAIN text : parsed.heads[i]) =>
        FlattenBodies(parsed.sections) = NonHeadingLines(text, parsed.heads)

\* C3: a cleaned text without heading-like line yields exactly one section,
\* keyed "header", whose body is the whole input text.
C3_NoHeadingSingleHeader ==
    (parsed.done /\ \A i \in DOMAIN text : ~SegIsHeader(strip(text[i]))) =>
        parsed.sections = <<[key |-> HeaderKey, value |-> join(text)]>>

\* a text of several lines, none of them a heading, was segmented
C3_Witness ==
    /\ parsed.done
    /\ Len(text) >= 2
    /\ \A i \in DOMAIN text : ~SegIsHeader(strip(text[i]))
    /\ Len(parsed.sections) = 1

\* the whole line is one of the catalogue's section names
IsCatalogueName(s) ==
    \E p \in DOMAIN SECTION_PATTERNS :
        (Len(s) + 1) \in MatchGroups(SECTION_PATTERNS[p], s, 1)

\* the heading rule as the data model states it: a catalogue name, optionally
\* followed by a colon, or an all-uppercase line of 2 to 5 words
ClaimedHeading(s) ==
    \/ IsCatalogueName(s)
    \/ s # <<>> /\ s[Len(s)] = ":" /\ IsCatalogueName(SubSeq(s, 1, Len(s) - 1))
    \/ isupper(s) /\ 2 <= WordCount(s) /\ WordCount(s) <= 5

\* C4: the segmenter treats a line as a heading if and only if it is a
\* catalogue name optionally followed by a colon, or an all-uppercase line of
\* 2 to 5 words; a content line that only begins with a catalogue name is kept
\* in the body.
C4_HeadingIffCatalogueOrCaps ==
    parsed.done =>
        \A i \in DOMAIN text : parsed.heads[i] <=> ClaimedHeading(strip(text[i]))

\* C5: the renderer's _is_section_header and the segmenter's heading test
\* agree on every line.
C5_HeadingPredicatesAgree ==
    parsed.done =>
        \A i \in DOMAIN text : parsed.heads[i] <=> is_section_header(text[i])

\* ---------------------------------------------------------------- claims: file names
\* the components _generate_filename put into the name, company first
NameComponents == nameOut.company_parts \o nameOut.title_parts

\* C11: every component that sanitization puts into a file name consists of
\* alphanumeric characters and underscores only (no whitespace is left, no two
\* underscores are adjacent), is at most 30 characters long, and the company
\* "Acme, Inc!" yields exactly the component Acme_Inc.
C11_ComponentAlnumUnderscore ==
    nameOut.done =>
        /\ \A k \in DOMAIN NameComponents :
              LET c == NameComponents[k]
              IN /\ Len(c) <= 30
                 /\ \A i \in 1..Len(c) : IsAlnum(c[i]) \/ c[i] = "_"
                 /\ \A i \in 1..(Len(c) - 1) : ~(c[i] = "_" /\ c[i + 1] = "_")
        /\ nameIn.company = <<"A","c","m","e",","," ","I","n","c","!">>
              => nameOut.company_parts = << <<"A","c","m","e","_","I","n","c">> >>

\* a company or job title that is given and of which sanitizing leaves something
GivesComponent(s) == s # <<>> /\ sanitize_for_filename(s) # <<>>

\* "_" and the sanitized, truncated text of s if it gives a component, else nothing
ShapePart(s) ==
    IF GivesComponent(s) THEN <<"_">> \o Take(sanitize_for_filename(s), 30) ELSE <<>>

\* C12: every file name has the shape
\* resume_tailored[_<company>][_<job-title>]_<timestamp>.<ext>: it starts with
\* resume_tailored_, the company component precedes the job-title component,
\* and a component is left out exactly when its input is absent or sanitizes
\* to the empty string.
C12_FilenameShape ==
    nameOut.done =>
        /\ nameOut.filename =
              <<"r","e","s","u","m","e","_","t","a","i","l","o","r","e","d">> \o ShapePart(nameIn.company) \o ShapePart(nameIn.job_title)
              \o <<"_">> \o strftime(nameIn.t) \o <<".">> \o nameIn.format
        /\ startswith(nameOut.filename, <<"r","e","s","u","m","e","_","t","a","i","l","o","r","e","d","_">>)
        /\ (nameOut.company_parts = <<>>) <=> ~GivesComponent(nameIn.company)
        /\ (nameOut.title_parts = <<>>) <=> ~GivesComponent(nameIn.job_title)

\* a name was made for a company of which sanitizing leaves nothing and a job
\* title that gives a component
C12_Witness ==
    /\ nameOut.done
    /\ nameIn.company = <<":">>
    /\ nameIn.job_title = <<"S","r","."," ","D","e","v">>
    /\ nameOut.company_parts = <<>>
    /\ nameOut.title_parts # <<>>

\* ---------------------------------------------------------------- claims: the parsed response
\* C13: the compatibility score of a parsed response is absent or an integer
\* in 0..100; a score block that holds an integer v (above 100 and negative
\* ones included) yields min(100, max(0, v)), and one that holds no integer
\* yields an absent score.
C13_ScoreClamped ==
    tailored.done =>
        LET score == tailored.content.ats_score
            block == response.blocks.score
        IN /\ score = <<>> \/ score[1] \in 0..100
           /\ block # <<>> =>
                score = IF block[1].value = <<>> THEN <<>>
                        ELSE IF block[1].value[1] < 0 THEN <<0>>
                        ELSE IF block[1].value[1] > 100 THEN <<100>>
                        ELSE block[1].value

\* C14: the five blocks are read independently of each other: a block that is
\* present yields its value whatever other blocks are present, an absent one
\* yields no summary, no keyword, no suggestion, no score, and with no
\* tailored-resume block the tailored text is the whole response.
C14_BlocksIndependent ==
    tailored.done =>
        LET b == response.blocks
            c == tailored.content
        IN /\ c.tailored_text = IF b.resume = <<>> THEN response.text ELSE b.resume[1].value
           /\ c.summary = IF b.summary = <<>> THEN <<>> ELSE <<b.summary[1].value>>
           /\ c.matched_keywords = IF b.keywords = <<>> THEN <<>> ELSE b.keywords[1].value
           /\ c.suggestions = IF b.suggestions = <<>> THEN <<>> ELSE b.suggestions[1].value
           /\ b.score = <<>> => c.ats_score = <<>>
           /\ (b.score # <<>> /\ b.score[1].value # <<>> /\ b.score[1].value[1] >= 0)
                => c.ats_score = IF b.score[1].value[1] > 100 THEN <<100>> ELSE b.score[1].value

\* a response with a summary and a score but no tailored-resume, keyword or
\* suggestion block was parsed
C14_Witness ==
    /\ tailored.done
    /\ response.blocks.resume = <<>>
    /\ response.blocks.keywords = <<>>
    /\ response.blocks.suggestions = <<>>
    /\ response.blocks.summary # <<>>
    /\ response.blocks.score # <<>>
    /\ tailored.content.summary # <<>>
    /\ tailored.content.ats_score = <<100>>
    /\ tailored.content.tailored_text = response.text

\* ---------------------------------------------------------------- claims: requests
\* C15: extract_job_details never lets a failure out: whatever the generation
\* call and the client do (no API key included), the method returns a
\* JobDetails record and no exception leaves it.
C15_ExtractNeverRaises ==
    (req.env.kind = "extract" /\ req.pc \in {"call", "except", "done"})
        => req.raised_in # "GeminiService.extract_job_details"

\* C16: a tailor request whose generation call failed is answered with the
\* service-unavailable error, status 503 and code GEMINI_API_ERROR.
C16_CallFailureIs503 ==
    (req.env.kind = "tailor" /\ req.pc = "done" /\ req.call_failed)
        => req.status = 503 /\ req.error = "GEMINI_API_ERROR"

\* C17: a tailor request starts its stages in the order extraction, AI call,
\* rendering, each only after the one before succeeded; when parsing failed
\* there is no generation call and no file, when the generation call failed
\* there is no file.
C17_StagesInOrder ==
    req.env.kind = "tailor" =>
        /\ \E n \in 0..3 : req.stages = SubSeq(<<"extraction", "ai_call", "rendering">>, 1, n)
        /\ Len(req.stages) >= 2 => "extraction" \in req.succeeded
        /\ Len(req.stages) >= 3 => "ai_call" \in req.succeeded
        /\ (req.stages # <<>> /\ "extraction" \notin req.succeeded)
              => req.calls = 0 /\ req.files = 0
        /\ (Len(req.stages) >= 2 /\ "ai_call" \notin req.succeeded) => req.files = 0

\* a tailor request ended after its generation call failed: two stages were
\* started and no file was written
C17_Witness ==
    /\ req.env.kind = "tailor"
    /\ req.pc = "done"
    /\ req.call_failed
    /\ req.stages = <<"extraction", "ai_call">>
    /\ req.files = 0

\* C18: generate_content is invoked at most once per request, and a failed
\* invocation ends the operation: tailor_resume raises, extract_job_details
\* returns the empty record.
C18_NoRetry ==
    /\ req.calls <= 1
    /\ req.call_failed =>
         /\ req.calls = 1
         /\ req.env.kind = "tailor" =>
              /\ req.pc \in {"except", "done"}
              /\ req.raised_in = "GeminiService.tailor_resume"
              /\ req.exc = "RuntimeError"
         /\ req.env.kind = "extract" =>
              /\ req.pc = "done"
              /\ req.exc = "none"
              /\ req.result = "JobDetails()"

\* an extraction request ended after its only generation call failed
C18_Witness ==
    /\ req.env.kind = "extract"
    /\ req.pc = "done"
    /\ req.call_failed
    /\ req.calls = 1
    /\ req.result = "JobDetails()"

\* ---------------------------------------------------------------- claims: the cleaned text
\* C19: the string _clean_text returns is normalized: no two adjacent
\* spaces/tabs, no three consecutive line breaks, no NUL, no whitespace at the
\* start or end of any line nor of the whole string.
C19_CleanTextNormalized ==
    cleaned.done =>
        LET t == cleaned.text
        IN /\ \A i \in 1..(Len(t) - 1) : ~(t[i] \in {" ", "\t"} /\ t[i + 1] \in {" ", "\t"})
           /\ \A i \in 1..(Len(t) - 2) : ~(t[i] = "\n" /\ t[i + 1] = "\n" /\ t[i + 2] = "\n")
           /\ \A i \in 1..Len(t) : t[i] # "NUL"
           /\ \A k \in 1..Len(split(t)) : strip(split(t)[k]) = split(t)[k]
           /\ strip(t) = t

\* C26: _clean_text is idempotent: applied to a text it returned, it returns
\* that text unchanged.
C26_CleanTextIdempotent ==
    (cleaned.done /\ cleaned.again # <<>>) => cleaned.again[1] = cleaned.text

\* ---------------------------------------------------------------- claims: skills
\* C20: every list _extract_skills returns is strictly ascending (sorted, no
\* entry twice), and all runs on the same input return the same list, whether
\* the catalogue is taken in the order of the source or in another one.
C20_SkillsSortedAndStable ==
    /\ \A r \in 1..Len(skills.runs) :
          \A i, j \in 1..Len(skills.runs[r].list) :
             i < j => StrLess(skills.runs[r].list[i], skills.runs[r].list[j])
    /\ \A r, q \in 1..Len(skills.runs) : skills.runs[r].list = skills.runs[q].list

\* two runs on a text with four skills, one with the catalogue in the order of
\* the source and one in another order
C20_Witness ==
    /\ Len(skills.runs) = 2
    /\ skills.runs[1].source_order
    /\ ~skills.runs[2].source_order
    /\ Len(skills.runs[1].list) = 4
    /\ Len(skills.runs[2].list) = 4

\* ---------------------------------------------------------------- claims: the parsed resume
\* the bodies of the sections whose heading the skills entry of the catalogue
\* recognizes
SkillsBodies ==
    {parsed.sections[i].value : i \in {i \in DOMAIN parsed.sections :
        re_match(SECTION_PATTERNS[9], parsed.sections[i].key)}}

\* C21: when the resume has a skills section with a non-empty body (under any
\* heading the skills entry of the catalogue recognizes), the skills are those
\* found in that body alone; the whole text is searched only when there is no
\* skills section or its body is empty.
C21_SkillsFromSectionOnly ==
    parsed.done =>
        IF \E b \in SkillsBodies : b # <<>>
        THEN \E b \in SkillsBodies :
                b # <<>> /\ parsed.skills \in extract_skills(b, <<>>, tech_skills)
        ELSE parsed.skills \in extract_skills(join(text), <<>>, tech_skills)

\* the first non-empty line of the text, if any
FirstNonEmpty ==
    LET idx == {i \in DOMAIN text : strip(text[i]) # <<>>}
    IN IF idx = {} THEN <<>>
       ELSE << strip(text[CHOOSE i \in idx : \A j \in idx : i <= j]) >>

\* whether a line passes for a name: no "@", under 50 characters, a letter in
\* it, no digit at its start
LooksLikeName(l) ==
    /\ \A i \in 1..Len(l) : l[i] # "@"
    /\ Len(l) <= 49
    /\ \E i \in 1..Len(l) : IsUpperChar(l[i]) \/ IsLowerChar(l[i])
    /\ ~(\E d \in 0..9 : DigitChars[d + 1] = l[1])

\* C24: the name is the first non-empty line exactly when that line passes
\* for a name; otherwise there is no name, and no later line is used.
C24_NameIsFirstLineOrUnset ==
    parsed.done =>
        parsed.name = IF FirstNonEmpty # <<>> /\ LooksLikeName(FirstNonEmpty[1])
                      THEN FirstNonEmpty
                      ELSE <<>>

\* a text was parsed whose first line has 50 characters and whose second line
\* would pass for a name: no name was set
C24_Witness ==
    /\ parsed.done
    /\ Len(text) >= 2
    /\ Len(text[1]) = 50
    /\ LooksLikeName(text[2])
    /\ parsed.name = <<>>

\* ---------------------------------------------------------------- claims: section keys
\* C30: every heading line of the text has its lowercased label among the keys
\* of the returned map, also when nothing follows it before the next heading
\* or the end of the text; the keys are exactly these labels, plus "header"
\* when the text does not begin with a heading.
C30_EveryHeadingYieldsKey ==
    parsed.done =>
        LET labels == {lower(strip(text[i])) :
                         i \in {i \in DOMAIN text : SegIsHeader(strip(text[i]))}}
            first == IF SegIsHeader(strip(text[1])) THEN {} ELSE {HeaderKey}
            keys == {parsed.sections[i].key : i \in DOMAIN parsed.sections}
        IN /\ keys = labels \cup first
           /\ Len(parsed.sections) = Cardinality(labels \cup first)

\* ---------------------------------------------------------------- claims: the generated documents
\* C22: when generate returns without raising, it returns one document per
\* entry of the requested formats, in request order: document i has the format
\* formats[i], a file name ending in "." and formats[i], the path of that file
\* in the output directory, and the size of the file that is at that path.
C22_OneDocumentPerFormat ==
    [][\A p \in Gens :
          (gen[p].pc # "done" /\ gen'[p].pc = "done" /\ gen'[p].raised = "none") =>
              LET g == gen'[p]
              IN /\ Len(g.result) = Len(g.formats)
                 /\ \A i \in DOMAIN g.result :
                       LET d == g.result[i]
                           n == Len(d.filename)
                           e == Len(g.formats[i])
                       IN /\ d.format = g.formats[i]
                          /\ n > e + 1
                          /\ SubSeq(d.filename, n - e, n) = <<".">> \o g.formats[i]
                          /\ d.path = d.filename
                          /\ d.path \in DOMAIN dir'
                          /\ d.size_bytes = dir'[d.path].size]_vars

\* a call for two formats returned two documents
C22_Witness ==
    \E p \in Gens :
        /\ gen[p].pc = "done" /\ gen[p].raised = "none"
        /\ gen[p].formats = <<PDF, DOCX>>
        /\ Len(gen[p].result) = 2
        /\ gen[p].result[1].format = PDF
        /\ gen[p].result[2].format = DOCX

\* ---------------------------------------------------------------- claims: cleanup with any keep_count
\* C29: for every keep_count, zero and negative ones included, when no
\* deletion fails, at most max(keep_count, 0) files remain in the output
\* directory when cleanup_old_files returns, and the count it returns is the
\* number of files it removed.
C29_AtMostKeepCountRemain ==
    [][\A c \in Cleans :
          (/\ cln[c].pc # "done" /\ cln'[c].pc = "done"
           /\ cln'[c].raised = "none" /\ ~cln'[c].unlink_failed) =>
              LET k == cln'[c]
              IN /\ Cardinality(DOMAIN dir') <= (IF k.keep_count > 0 THEN k.keep_count ELSE 0)
                 /\ k.result = Cardinality(k.removed)]_vars

\* ---------------------------------------------------------------- claims: the rendered elements
\* the kinds of the elements of a rendered document, in order
RECURSIVE Kinds(_)
Kinds(doc) == IF doc = <<>> THEN <<>> ELSE <<Head(doc).kind>> \o Kinds(Tail(doc))

\* every separator line of the content gave a rule and every section header
\* is followed by an underline
RulesAndUnderlines(out) ==
    /\ Cardinality({k \in DOMAIN out.doc : out.doc[k].kind = "rule"})
          = Cardinality({i \in DOMAIN out.cls : out.cls[i] = "separator"})
    /\ \A k \in DOMAIN out.doc :
          out.doc[k].kind = "header" =>
              k < Len(out.doc) /\ out.doc[k + 1].kind = "underline"

\* C23: the PDF renderer and the DOCX renderer emit the same sequence of
\* element kinds for every text: in both, each separator line yields a
\* horizontal rule and each section header is followed by an underline.
C23_SameElementKinds ==
    (pdfOut.done /\ docxOut.done) =>
        /\ Kinds(pdfOut.doc) = Kinds(docxOut.doc)
        /\ RulesAndUnderlines(pdfOut)
        /\ RulesAndUnderlines(docxOut)

\* the texts of the bullet items of a rendered document, in order
RECURSIVE BulletTexts(_)
BulletTexts(doc) ==
    IF doc = <<>> THEN <<>>
    ELSE (IF Head(doc).kind = "bullet" THEN <<Head(doc).text>> ELSE <<>>)
         \o BulletTexts(Tail(doc))

\* the lines rendered as bullet items, each without its first character (the
\* marker) and the whitespace after it
RECURSIVE BulletContents(_, _)
BulletContents(lines, cls) ==
    IF lines = <<>> THEN <<>>
    ELSE (IF Head(cls) = "bullet"
          THEN << lstrip(Tail(strip(Head(lines))), Whitespace) >>
          ELSE <<>>)
         \o BulletContents(Tail(lines), Tail(cls))

\* C25: the text of a bullet item is the line without its leading marker and
\* the whitespace after it; a marker character at the start of what follows
\* is kept, in the PDF and in the DOCX.
C25_OnlyLeadingMarkerRemoved ==
    /\ pdfOut.done =>
          LET c == BulletContents(content, pdfOut.cls)
          IN BulletTexts(pdfOut.doc) =
                [k \in DOMAIN c |-> <<"U+2022", " ">> \o clean_text_for_pdf(c[k])]
    /\ docxOut.done =>
          BulletTexts(docxOut.doc) = BulletContents(content, docxOut.cls)

\* ---------------------------------------------------------------- claims: overlapping calls
\* C27: whatever the interleaving of a call of generate with a call of
\* cleanup_old_files (keep_count >= 0) on the same directory, generate does
\* not fail after it wrote a file: when it returns, there is a document for
\* every file it wrote, and that file is still at its path.
C27_GenerateSurvivesCleanup ==
    [][\A p \in Gens :
          (/\ gen[p].pc # "done" /\ gen'[p].pc = "done"
           /\ \A c \in Cleans : cln'[c].keep_count >= 0
           /\ gen'[p].filename \in gen'[p].wrote) =>
              /\ gen'[p].raised = "none"
              /\ \A f \in gen'[p].wrote :
                    /\ \E k \in DOMAIN gen'[p].result : gen'[p].result[k].path = f
                    /\ f \in DOMAIN dir']_vars

\* C28: whatever the interleaving of two calls of cleanup_old_files on the
\* same directory, neither raises, and the two counts returned add up to the
\* number of files removed from the directory.
C28_CleanupsNeverRaise ==
    /\ \A c \in Cleans : cln[c].raised = "none"
    /\ (\A c \in Cleans : cln[c].pc = "done") =>
          cln["c1"].result + cln["c2"].result
             = Cardinality(cln["c1"].removed) + Cardinality(cln["c2"].removed)

====
